---------------------------- MODULE Spec2Model ----------------------------
(***************************************************************************)
(* Model of the infrastructure generator                                   *)
(* (scripts/generators/generate_infrastructure.py) and of the security     *)
(* validator it calls (scripts/security/validator.py).                     *)
(*                                                                         *)
(* Names (components, project names, ...) are sequences of one-character   *)
(* strings, so that the validators can be modelled by what they do to the  *)
(* characters.                                                             *)
(***************************************************************************)
EXTENDS Integers, Sequences, FiniteSets, TLC

(***************************************************************************)
(* Bounds of the model.                                                    *)
(***************************************************************************)
\* longest component list handed to _sort_by_dependencies in SortSpec
MaxLen == 3
\* longest dependency list of one component in a drawn dependency table
MaxDeps == 2
\* longest component list given on the command line in Spec
MaxRequested == 3
\* longest component list requested of the generator in GenSpec
MaxGenerated == 2
\* longest sampled name, in characters, in ValidatorSpec
MaxNameLen == 3
\* most whitespace characters on either side of a sampled account id
MaxPad == 1
\* longest sampled list handed to validate_components_list
MaxList == 3
\* most segments appended to the base directory in a sampled path
MaxSegs == 3
\* deepest nesting of dicts in a sampled template context
MaxDepth == 3
MaxOps == 2
MaxWindow == 3
MaxStep == 2
MaxTime == 5
MaxCalls == 5
MaxFaults == 2
MaxDocs == 4
MaxTimestamp == 3
MaxSearchErrors == 2
elkhits == 2

(***************************************************************************)
(* Component names.                                                        *)
(***************************************************************************)
terraform_backend ==
    <<"t","e","r","r","a","f","o","r","m","-","b","a","c","k","e","n","d">>
vpc == <<"v","p","c">>
eks_auto == <<"e","k","s","-","a","u","t","o">>
rds == <<"r","d","s">>
unknown_component ==
    <<"u","n","k","n","o","w","n","-","c","o","m","p","o","n","e","n","t">>

\* InfrastructureGenerator.AVAILABLE_COMPONENTS (a list)
AVAILABLE_COMPONENTS == <<terraform_backend, vpc, eks_auto, rds>>

\* InfrastructureGenerator.DEPENDENCIES (a dict: name -> list of names)
DEPENDENCIES ==
    (terraform_backend :> <<>>) @@ (vpc :> <<>>) @@
    (eks_auto :> <<vpc>>) @@ (rds :> <<vpc>>)

(***************************************************************************)
(* List helpers (Python list operations).                                  *)
(***************************************************************************)
\* x in lst
In(x, lst) == \E i \in 1..Len(lst) : lst[i] = x

\* the list without its element at index k
RemoveAt(lst, k) == [i \in 1..(Len(lst) - 1) |-> IF i < k THEN lst[i] ELSE lst[i + 1]]

\* lst.index(x), for x in lst
IndexOf(x, lst) == CHOOSE i \in 1..Len(lst) : lst[i] = x /\ \A j \in 1..(i - 1) : lst[j] # x

\* mutant of ListRemove: removes every element equal to x
RECURSIVE ListRemove_All(_, _)
ListRemove_All(lst, x) ==
    IF lst = <<>> THEN <<>>
    ELSE IF Head(lst) = x THEN ListRemove_All(Tail(lst), x)
    ELSE <<Head(lst)>> \o ListRemove_All(Tail(lst), x)

\* lst.remove(x): removes the first element equal to x
ListRemove(lst, x) == RemoveAt(lst, IndexOf(x, lst))

\* mutant of DictGet: the default for every key
DictGet_Default(dict, key) == <<>>

\* dict.get(key, [])
DictGet(dict, key) == IF key \in DOMAIN dict THEN dict[key] ELSE <<>>

(***************************************************************************)
(* Characters and the string operations the validators use.  A character   *)
(* is a one-character string; a character outside ASCII is written as its  *)
(* code point ("U+FF56" is the fullwidth letter v).                        *)
(***************************************************************************)
LowerLetters == <<"a","b","c","d","e","f","g","h","i","j","k","l","m","n","o","p","q","r","s","t","u","v","w","x","y","z">>
UpperLetters == <<"A","B","C","D","E","F","G","H","I","J","K","L","M","N","O","P","Q","R","S","T","U","V","W","X","Y","Z">>
AsciiDigits == {"0","1","2","3","4","5","6","7","8","9"}
\* decimal digits outside ASCII that the regular expression class \d matches
UnicodeDigits == {"U+0661", "U+0662"}
\* what str.strip() removes
Whitespace == {" ", "\t", "\n"}

IsLowerLetter(c) == \E i \in 1..Len(LowerLetters) : LowerLetters[i] = c

\* the class [a-z0-9]
IsLowerAlnum(c) == IsLowerLetter(c) \/ c \in AsciiDigits

\* the class [a-z0-9-]
IsLowerAlnumHyphen(c) == IsLowerAlnum(c) \/ c = "-"

\* unicodedata.normalize('NFKC', .) of one character: compatibility
\* characters become their ASCII form, a ligature becomes two characters
NFKCChar(c) ==
    CASE c = "U+FF56" -> <<"v">>
      [] c = "U+FF30" -> <<"P">>
      [] c = "U+FB01" -> <<"f", "i">>
      [] OTHER -> <<c>>

RECURSIVE NFKC(_)
NFKC(s) == IF s = <<>> THEN <<>> ELSE NFKCChar(Head(s)) \o NFKC(Tail(s))

\* str.lower() of one character
LowerChar(c) ==
    IF \E i \in 1..Len(UpperLetters) : UpperLetters[i] = c
    THEN LowerLetters[CHOOSE i \in 1..Len(UpperLetters) : UpperLetters[i] = c]
    ELSE c

\* str.lower()
Lower(s) == [i \in 1..Len(s) |-> LowerChar(s[i])]

RECURSIVE LStrip(_)
LStrip(s) == IF s # <<>> /\ Head(s) \in Whitespace THEN LStrip(Tail(s)) ELSE s

RECURSIVE RStrip(_)
RStrip(s) ==
    IF s # <<>> /\ s[Len(s)] \in Whitespace
    THEN RStrip(SubSeq(s, 1, Len(s) - 1))
    ELSE s

\* str.strip()
Strip(s) == RStrip(LStrip(s))

\* a Python exception: its type and the head of its message
Raise(type, msg) == [type |-> type, msg |-> msg]

\* no exception
None == [type |-> "None", msg |-> ""]

(***************************************************************************)
(* SecurityValidator (scripts/security/validator.py).  A validator returns *)
(* [value, error]: error is None and value the returned string, or error   *)
(* is the exception raised.                                                *)
(***************************************************************************)
MAX_PROJECT_NAME_LENGTH == 63
MAX_COMPONENT_NAME_LENGTH == 50
MAX_COMPONENTS_COUNT == 20

ALLOWED_REGIONS ==
    {<<"u","s","-","e","a","s","t","-","1">>,
     <<"u","s","-","e","a","s","t","-","2">>,
     <<"u","s","-","w","e","s","t","-","1">>,
     <<"u","s","-","w","e","s","t","-","2">>,
     <<"e","u","-","w","e","s","t","-","1">>,
     <<"e","u","-","w","e","s","t","-","2">>,
     <<"e","u","-","w","e","s","t","-","3">>,
     <<"e","u","-","c","e","n","t","r","a","l","-","1">>,
     <<"a","p","-","s","o","u","t","h","e","a","s","t","-","1">>,
     <<"a","p","-","s","o","u","t","h","e","a","s","t","-","2">>,
     <<"a","p","-","n","o","r","t","h","e","a","s","t","-","1">>,
     <<"c","a","-","c","e","n","t","r","a","l","-","1">>,
     <<"s","a","-","e","a","s","t","-","1">>}

Ok(value) == [value |-> value, error |-> None]

Fail(msg) == [value |-> <<>>, error |-> Raise("ValueError", msg)]

\* mutant of MatchesProjectNamePattern: the pattern ^[a-z0-9][a-z0-9-]{0,62}$,
\* which lets a name end with a hyphen
MatchesProjectNamePattern_AnyLast(s) ==
    LET t == IF s # <<>> /\ s[Len(s)] = "\n" THEN SubSeq(s, 1, Len(s) - 1) ELSE s
    IN /\ Len(t) >= 1
       /\ Len(t) <= 63
       /\ IsLowerAlnum(t[1])
       /\ \A i \in 1..Len(t) : IsLowerAlnumHyphen(t[i])

\* PROJECT_NAME_PATTERN.match: ^[a-z0-9]([a-z0-9-]{0,61}[a-z0-9])?$
\* ($ also matches before a final newline)
MatchesProjectNamePattern(s) ==
    LET t == IF s # <<>> /\ s[Len(s)] = "\n" THEN SubSeq(s, 1, Len(s) - 1) ELSE s
    IN /\ Len(t) >= 1
       /\ Len(t) <= 63
       /\ IsLowerAlnum(t[1])
       /\ IsLowerAlnum(t[Len(t)])
       /\ \A i \in 1..Len(t) : IsLowerAlnumHyphen(t[i])

\* COMPONENT_PATTERN.match and ENV_PATTERN.match:
\* ^[a-z]([a-z0-9-]*[a-z0-9])?$
MatchesComponentPattern(s) ==
    LET t == IF s # <<>> /\ s[Len(s)] = "\n" THEN SubSeq(s, 1, Len(s) - 1) ELSE s
    IN /\ Len(t) >= 1
       /\ IsLowerLetter(t[1])
       /\ IsLowerAlnum(t[Len(t)])
       /\ \A i \in 1..Len(t) : IsLowerAlnumHyphen(t[i])

\* AWS_ACCOUNT_ID_PATTERN.match: ^\d{12}$
MatchesAccountIdPattern(s) ==
    LET t == IF s # <<>> /\ s[Len(s)] = "\n" THEN SubSeq(s, 1, Len(s) - 1) ELSE s
    IN /\ Len(t) = 12
       /\ \A i \in 1..Len(t) : t[i] \in AsciiDigits \cup UnicodeDigits

ReservedProjectNames ==
    {<<"t","m","p">>, <<"t","e","m","p">>, <<"a","d","m","i","n">>,
     <<"r","o","o","t">>, <<"d","e","f","a","u","l","t">>}

FakeAccountIds ==
    {<<"0","0","0","0","0","0","0","0","0","0","0","0">>,
     <<"1","2","3","4","5","6","7","8","9","0","1","2">>}

validate_project_name(name) ==
    IF name = <<>> THEN Fail("Project name cannot be empty")
    ELSE LET n == Lower(Strip(NFKC(name)))
         IN IF Len(n) > MAX_PROJECT_NAME_LENGTH THEN Fail("Project name too long")
            ELSE IF ~MatchesProjectNamePattern(n)
                 THEN Fail("Project name must be lowercase alphanumeric")
            ELSE IF n \in ReservedProjectNames THEN Fail("Project name is reserved")
            ELSE Ok(n)

validate_component(component) ==
    IF component = <<>> THEN Fail("Component name cannot be empty")
    ELSE LET c == Lower(Strip(NFKC(component)))
         IN IF Len(c) > MAX_COMPONENT_NAME_LENGTH THEN Fail("Component name too long")
            ELSE IF ~MatchesComponentPattern(c) THEN Fail("Invalid component name")
            ELSE Ok(c)

\* the loop of lines 114-116: validate component by component, stop at the
\* first one that raises
RECURSIVE ValidateComponentsFrom(_, _)
ValidateComponentsFrom(lst, validated) ==
    IF lst = <<>> THEN Ok(validated)
    ELSE LET r == validate_component(Head(lst))
         IN IF r.error # None THEN [value |-> <<>>, error |-> r.error]
            ELSE ValidateComponentsFrom(Tail(lst), Append(validated, r.value))

\* mutant of validate_components_list: a list of MAX_COMPONENTS_COUNT
\* entries is already too long
validate_components_list_OffByOne(components) ==
    IF components = <<>> THEN Fail("Components list cannot be empty")
    ELSE IF Len(components) >= MAX_COMPONENTS_COUNT THEN Fail("Too many components")
    ELSE ValidateComponentsFrom(components, <<>>)

validate_components_list(components) ==
    IF components = <<>> THEN Fail("Components list cannot be empty")
    ELSE IF Len(components) > MAX_COMPONENTS_COUNT THEN Fail("Too many components")
    ELSE ValidateComponentsFrom(components, <<>>)

validate_environment(env) ==
    IF env = <<>> THEN Fail("Environment name cannot be empty")
    ELSE LET e == Lower(Strip(NFKC(env)))
         IN IF ~MatchesComponentPattern(e) THEN Fail("Invalid environment name")
            ELSE Ok(e)

\* the list comprehension of lines 358-360 of validate_all_inputs: validate
\* environment by environment, stop at the first one that raises
RECURSIVE ValidateEnvironmentsFrom(_, _)
ValidateEnvironmentsFrom(lst, validated) ==
    IF lst = <<>> THEN Ok(validated)
    ELSE LET r == validate_environment(Head(lst))
         IN IF r.error # None THEN [value |-> <<>>, error |-> r.error]
            ELSE ValidateEnvironmentsFrom(Tail(lst), Append(validated, r.value))

\* mutant of validate_aws_account_id: the fake ids are looked for before the
\* whitespace is stripped
validate_aws_account_id_FakeUnstripped(account_id) ==
    IF account_id = <<>> THEN Fail("AWS Account ID cannot be empty")
    ELSE LET a == Strip(account_id)
         IN IF ~MatchesAccountIdPattern(a)
            THEN Fail("AWS Account ID must be exactly 12 digits")
            ELSE IF account_id \in FakeAccountIds
                 THEN Fail("Please provide a valid AWS Account ID")
            ELSE Ok(a)

validate_aws_account_id(account_id) ==
    IF account_id = <<>> THEN Fail("AWS Account ID cannot be empty")
    ELSE LET a == Strip(account_id)
         IN IF ~MatchesAccountIdPattern(a)
            THEN Fail("AWS Account ID must be exactly 12 digits")
            ELSE IF a \in FakeAccountIds
                 THEN Fail("Please provide a valid AWS Account ID")
            ELSE Ok(a)

validate_aws_region(region) ==
    IF region = <<>> THEN Fail("AWS region cannot be empty")
    ELSE LET r == Lower(Strip(region))
         IN IF r \notin ALLOWED_REGIONS THEN Fail("Invalid AWS region")
            ELSE Ok(r)

\* validate_all_inputs: the dict is built entry by entry, so the first
\* validator that raises decides the exception
validate_all_inputs(project_name, components, environments, region, aws_account_id) ==
    LET p == validate_project_name(project_name)
        c == validate_components_list(components)
        e == ValidateEnvironmentsFrom(environments, <<>>)
        r == validate_aws_region(region)
        a == validate_aws_account_id(aws_account_id)
        err == IF p.error # None THEN p.error
               ELSE IF c.error # None THEN c.error
               ELSE IF e.error # None THEN e.error
               ELSE IF r.error # None THEN r.error
               ELSE a.error
    IN [project_name |-> p.value, components |-> c.value,
        environments |-> e.value, region |-> r.value,
        aws_account_id |-> a.value, error |-> err]

(***************************************************************************)
(* Paths.  A path is absolute: the sequence of its segments below the      *)
(* root, each segment a sequence of characters.  The NUL character is      *)
(* written "NUL".  links maps the path of a symbolic link to the resolved  *)
(* path it points to.                                                      *)
(***************************************************************************)
MAX_PATH_LENGTH == 4096

dot == <<".">>
dotdot == <<".", ".">>

NoLinks == [x \in {} |-> x]

\* len(str(path)): every segment and the separator before it ("/" alone
\* for the root)
RECURSIVE SegmentsLen(_)
SegmentsLen(path) ==
    IF path = <<>> THEN 0 ELSE Len(Head(path)) + 1 + SegmentsLen(Tail(path))

PathStrLen(path) == IF path = <<>> THEN 1 ELSE SegmentsLen(path)

\* '\x00' in str(path)
HasNul(path) == \E i \in 1..Len(path) : \E k \in 1..Len(path[i]) : path[i][k] = "NUL"

\* Path.resolve() from the resolved directory cur on: "." is dropped, ".."
\* leaves the directory reached so far (the root is its own parent), a
\* symbolic link is replaced by what it points to
RECURSIVE ResolveFrom(_, _, _)
ResolveFrom(cur, rest, links) ==
    IF rest = <<>> THEN cur
    ELSE LET s == Head(rest)
             nxt == Append(cur, s)
         IN IF s = dot THEN ResolveFrom(cur, Tail(rest), links)
            ELSE IF s = dotdot
                 THEN ResolveFrom(IF cur = <<>> THEN <<>>
                                  ELSE SubSeq(cur, 1, Len(cur) - 1),
                                  Tail(rest), links)
            ELSE ResolveFrom(IF nxt \in DOMAIN links THEN links[nxt] ELSE nxt,
                             Tail(rest), links)

\* Path.resolve()
Resolve(path, links) == ResolveFrom(<<>>, path, links)

\* mutant of RelativeTo: the base directory itself is not relative to it
RelativeTo_Strict(path, base) ==
    /\ Len(base) < Len(path)
    /\ SubSeq(path, 1, Len(base)) = base

\* path.relative_to(base) does not raise: base is path or an ancestor of it
RelativeTo(path, base) ==
    /\ Len(base) <= Len(path)
    /\ SubSeq(path, 1, Len(base)) = base

\* the optional argument base_dir
NoBaseDir == [given |-> FALSE, dir |-> <<>>]
BaseDir(dir) == [given |-> TRUE, dir |-> dir]

\* SecurityValidator.validate_path.  resolve() raises ValueError itself for
\* a path that holds a NUL character.
validate_path(path, base_dir, links) ==
    IF HasNul(path) THEN Fail("Path contains null byte")
    ELSE LET resolved == Resolve(path, links)
         IN IF PathStrLen(resolved) > MAX_PATH_LENGTH THEN Fail("Path too long")
            ELSE IF base_dir.given
                    /\ ~RelativeTo(resolved, Resolve(base_dir.dir, links))
                 THEN Fail("Path is outside allowed directory")
            ELSE Ok(resolved)

\* characters c with ord(c) < 32
ControlChars == {"NUL", "\t", "\n", "\r"}

\* sub in s, for a two-character sub
HasPair(s, a, b) == \E i \in 1..(Len(s) - 1) : s[i] = a /\ s[i + 1] = b

HasChar(s, c) == \E i \in 1..Len(s) : s[i] = c

\* SecurityValidator.validate_filename
validate_filename(filename) ==
    IF filename = <<>> THEN Fail("Filename cannot be empty")
    ELSE IF HasPair(filename, ".", ".") \/ HasChar(filename, "/")
            \/ HasChar(filename, "\\")
         THEN Fail("Filename cannot contain path separators")
    ELSE IF HasChar(filename, "NUL") THEN Fail("Filename contains null byte")
    ELSE IF \E i \in 1..Len(filename) : filename[i] \in ControlChars
         THEN Fail("Filename contains control characters")
    ELSE IF Len(filename) > 255 THEN Fail("Filename too long")
    ELSE Ok(filename)

\* str.rfind('.'): the index of the last "." of name, 0 if it has none
LastDot(name) ==
    IF HasChar(name, ".")
    THEN CHOOSE i \in 1..Len(name) :
            name[i] = "." /\ \A j \in (i + 1)..Len(name) : name[j] # "."
    ELSE 0

\* PurePath.stem: the name without its last suffix; a leading or a final
\* "." starts no suffix
Stem(name) ==
    LET i == LastDot(name)
    IN IF 1 < i /\ i < Len(name) THEN SubSeq(name, 1, i - 1) ELSE name

(***************************************************************************)
(* Template contexts.  A Python value is a record [type, v]: a string (v   *)
(* its characters), a list (v the sequence of its elements), a dict (v a   *)
(* function from keys to values) or a number.  A key is a string, given by *)
(* its characters.                                                         *)
(***************************************************************************)
StrValue(chars) == [type |-> "str", v |-> chars]
ListValue(elems) == [type |-> "list", v |-> elems]
DictValue(dict) == [type |-> "dict", v |-> dict]
IntValue(n) == [type |-> "int", v |-> n]

\* value.replace('\x00', '')
RECURSIVE RemoveNul(_)
RemoveNul(chars) ==
    IF chars = <<>> THEN <<>>
    ELSE IF Head(chars) = "NUL" THEN RemoveNul(Tail(chars))
    ELSE <<Head(chars)>> \o RemoveNul(Tail(chars))

\* value[:10000] for a longer value (lines 250-251)
LimitLength(chars) == IF Len(chars) > 10000 THEN SubSeq(chars, 1, 10000) ELSE chars

\* the condition of line 242
DangerousKey(key) ==
    \/ key # <<>> /\ key[1] = "_"
    \/ key = <<"_","_","b","u","i","l","t","i","n","s","_","_">>
    \/ key = <<"_","_","g","l","o","b","a","l","s","_","_">>

\* the list comprehension of lines 259-262: strings lose their NUL
\* characters, every other element is kept as it is
SanitizeList(elems) ==
    [i \in 1..Len(elems) |->
        IF elems[i].type = "str" THEN StrValue(RemoveNul(elems[i].v)) ELSE elems[i]]

\* SecurityValidator.sanitize_template_context, on the dict context
RECURSIVE sanitize_template_context(_)
sanitize_template_context(context) ==
    [key \in {k \in DOMAIN context : ~DangerousKey(k)} |->
        LET value == context[key]
        IN CASE value.type = "str" -> StrValue(LimitLength(RemoveNul(value.v)))
             [] value.type = "dict" -> DictValue(sanitize_template_context(value.v))
             [] value.type = "list" -> ListValue(SanitizeList(value.v))
             [] OTHER -> value]

(***************************************************************************)
(* The file system.  A tree maps the path of every directory, file and     *)
(* symbolic link that exists to [kind, run]: run is 1 for what the current *)
(* run created or wrote, 0 for what was there before it.                   *)
(***************************************************************************)
seg_work == <<"w","o","r","k">>
seg_generated_infra == <<"g","e","n","e","r","a","t","e","d","-","i","n","f","r","a">>
seg_infra == <<"i","n","f","r","a">>
seg_modules == <<"m","o","d","u","l","e","s">>
seg_config == <<"c","o","n","f","i","g">>
seg_readme == <<"R","E","A","D","M","E",".","m","d">>
seg_sample_tfvars == <<"s","a","m","p","l","e",".","t","f","v","a","r","s",".","e","x","a","m","p","l","e">>
seg_gitlab_ci == <<".","g","i","t","l","a","b","-","c","i",".","y","m","l">>
seg_github == <<".","g","i","t","h","u","b">>
seg_workflows == <<"w","o","r","k","f","l","o","w","s">>
seg_terraform_ci == <<"t","e","r","r","a","f","o","r","m","-","c","i",".","y","m","l">>
seg_azure_pipelines == <<"a","z","u","r","e","-","p","i","p","e","l","i","n","e","s",".","y","m","l">>
seg_scripts == <<"s","c","r","i","p","t","s">>
seg_migrate == <<"m","i","g","r","a","t","e","-","t","o","-","s","3","-","b","a","c","k","e","n","d",".","s","h">>
seg_init_backend == <<"i","n","i","t","-","b","a","c","k","e","n","d",".","s","h">>
seg_validate_backend == <<"v","a","l","i","d","a","t","e","-","b","a","c","k","e","n","d",".","s","h">>
seg_etc == <<"e","t","c">>
seg_passwd == <<"p","a","s","s","w","d">>
main_tf == <<"m","a","i","n",".","t","f">>
variables_tf == <<"v","a","r","i","a","b","l","e","s",".","t","f">>
outputs_tf == <<"o","u","t","p","u","t","s",".","t","f">>
main_tf_j2 == <<"m","a","i","n",".","t","f",".","j","2">>
variables_tf_j2 == <<"v","a","r","i","a","b","l","e","s",".","t","f",".","j","2">>
outputs_tf_j2 == <<"o","u","t","p","u","t","s",".","t","f",".","j","2">>
dotdot_j2 == <<".",".","j","2">>
seg_values == <<"v","a","l","u","e","s">>
seg_dev_yaml == <<"d","e","v",".","y","a","m","l">>
seg_dot_git == <<".","g","i","t">>
seg_prod_yaml == <<"p","r","o","d",".","y","a","m","l">>
sftp_tf == <<"s","f","t","p",".","t","f">>

\* the current directory, and self.output_dir for the default
\* 'generated-infra' (line 81), resolved (line 89)
cwd == <<seg_work>>
output_dir == <<seg_work, seg_generated_infra>>

\* where a symbolic link planted in the output tree points
outside_target == <<seg_etc, seg_passwd>>

EmptyTree == [p \in {} |-> [kind |-> "dir", run |-> 0]]

\* the current directory alone, without an output directory
FreshTree == (cwd :> [kind |-> "dir", run |-> 0])

Exists(tree, path) == path \in DOMAIN tree

Entry(kind, run) == [kind |-> kind, run |-> run]

\* the symbolic links of tree, each with the path it resolves to
LinksOf(tree) ==
    [p \in {q \in DOMAIN tree : tree[q].kind = "link"} |-> outside_target]

\* path and its ancestors below the root
Ancestors(path) == {SubSeq(path, 1, n) : n \in 1..Len(path)}

\* mutant of Mkdir: a directory that exists is emptied
Mkdir_Emptied(tree, path) ==
    [p \in {q \in DOMAIN tree : ~RelativeTo(q, path)} \cup {path} |->
        IF p = path THEN Entry("dir", 1) ELSE tree[p]]

\* Path.mkdir(exist_ok=True): nothing for a directory that exists
Mkdir(tree, path) ==
    IF Exists(tree, path) THEN tree
    ELSE [p \in DOMAIN tree \cup {path} |->
             IF p = path THEN Entry("dir", 1) ELSE tree[p]]

\* Path.mkdir(parents=True, exist_ok=True)
MkdirParents(tree, path) ==
    [p \in DOMAIN tree \cup Ancestors(path) |->
        IF p \in DOMAIN tree THEN tree[p] ELSE Entry("dir", 1)]

\* Path.write_text and shutil.copy to path: the file is created or
\* overwritten; a symbolic link is followed
WriteFile(tree, path) ==
    LET target == IF Exists(tree, path) /\ tree[path].kind = "link"
                  THEN outside_target ELSE path
    IN [p \in DOMAIN tree \cup {target} |->
           IF p = target THEN Entry("file", 1) ELSE tree[p]]

\* shutil.rmtree(path): path and everything below it
Rmtree(tree, path) ==
    [p \in {q \in DOMAIN tree : ~RelativeTo(q, path)} |-> tree[p]]

\* shutil.copytree(src, dest) of a directory that holds the files names
CopyTree(tree, dest, names) ==
    [p \in DOMAIN tree \cup {dest} \cup {Append(dest, names[i]) : i \in 1..Len(names)} |->
        IF p = dest THEN Entry("dir", 1)
        ELSE IF \E i \in 1..Len(names) : p = Append(dest, names[i])
             THEN Entry("file", 1)
        ELSE tree[p]]

(***************************************************************************)
(* _sort_by_dependencies                                                   *)
(***************************************************************************)
\* mutant of AllDepsSatisfied: the "not" of "dep not in components" is lost
AllDepsSatisfied_NotLost(component, sorted, comps, deps) ==
    LET ds == DictGet(deps, component)
    IN \A k \in 1..Len(ds) : In(ds[k], sorted) \/ In(ds[k], comps)

\* the condition of line 125: every dependency is placed or not requested
AllDepsSatisfied(component, sorted, comps, deps) ==
    LET ds == DictGet(deps, component)
    IN \A k \in 1..Len(ds) : In(ds[k], sorted) \/ ~In(ds[k], comps)

\* mutant of ScanRemaining: the last component whose dependencies are
\* satisfied wins, not the first
RECURSIVE ScanRemaining_Last(_, _, _, _, _)
ScanRemaining_Last(i, rem, sorted, comps, deps) ==
    IF i > Len(rem) THEN 0
    ELSE LET later == ScanRemaining_Last(i + 1, rem, sorted, comps, deps)
         IN IF later # 0 THEN later
            ELSE IF \A k \in 1..Len(DictGet(deps, rem[i])) :
                       \/ In(DictGet(deps, rem[i])[k], sorted)
                       \/ ~In(DictGet(deps, rem[i])[k], comps)
                 THEN i
            ELSE 0

\* the for loop of line 123: index in rem of the first component whose
\* dependencies are satisfied, 0 when the loop runs to its else branch
RECURSIVE ScanRemaining(_, _, _, _, _)
ScanRemaining(i, rem, sorted, comps, deps) ==
    IF i > Len(rem) THEN 0
    ELSE IF AllDepsSatisfied(rem[i], sorted, comps, deps) THEN i
    ELSE ScanRemaining(i + 1, rem, sorted, comps, deps)

\* mutant of SortPass: the fallback forgets to extend sorted_components
SortPass_NoExtend(rem, sorted, comps, deps) ==
    LET k == ScanRemaining(1, rem, sorted, comps, deps)
    IN IF k # 0
       THEN [sorted |-> Append(sorted, rem[k]),
             remaining |-> ListRemove(rem, rem[k]),
             brk |-> FALSE]
       ELSE [sorted |-> sorted, remaining |-> rem, brk |-> TRUE]

\* mutant of SortPass: the placed component is put in front, not appended
SortPass_Prepend(rem, sorted, comps, deps) ==
    LET k == ScanRemaining(1, rem, sorted, comps, deps)
    IN IF k # 0
       THEN [sorted |-> <<rem[k]>> \o sorted,
             remaining |-> ListRemove(rem, rem[k]),
             brk |-> FALSE]
       ELSE [sorted |-> sorted \o rem, remaining |-> rem, brk |-> TRUE]

\* mutant of SortPass: a pass that finds nothing to place does not leave
\* the while loop
SortPass_NoBreak(rem, sorted, comps, deps) ==
    LET k == ScanRemaining(1, rem, sorted, comps, deps)
    IN IF k # 0
       THEN [sorted |-> Append(sorted, rem[k]),
             remaining |-> ListRemove(rem, rem[k]),
             brk |-> FALSE]
       ELSE [sorted |-> sorted, remaining |-> rem, brk |-> FALSE]

\* one iteration of the while loop of line 121
SortPass(rem, sorted, comps, deps) ==
    LET k == ScanRemaining(1, rem, sorted, comps, deps)
    IN IF k # 0
       THEN [sorted |-> Append(sorted, rem[k]),
             remaining |-> ListRemove(rem, rem[k]),
             brk |-> FALSE]
       ELSE [sorted |-> sorted \o rem, remaining |-> rem, brk |-> TRUE]

RECURSIVE SortLoop(_, _, _, _)
SortLoop(rem, sorted, comps, deps) ==
    IF rem = <<>> THEN sorted
    ELSE LET p == SortPass(rem, sorted, comps, deps)
         IN IF p.brk THEN p.sorted
            ELSE SortLoop(p.remaining, p.sorted, comps, deps)

\* _sort_by_dependencies(components) under the dependency table deps
SortByDependencies(comps, deps) == SortLoop(comps, <<>>, comps, deps)

(***************************************************************************)
(* validate_components                                                     *)
(***************************************************************************)
\* the ValueError of lines 100-104: it names the component and lists
\* AVAILABLE_COMPONENTS
UnknownComponentError(component) ==
    [type |-> "ValueError", msg |-> "Unknown component",
     component |-> component, available |-> AVAILABLE_COMPONENTS]

NoComponentError ==
    [type |-> "None", msg |-> "", component |-> <<>>, available |-> <<>>]

\* mutant of AppendMissingDeps: appends a dependency without looking whether
\* the list holds it
RECURSIVE AppendMissingDeps_NoCheck(_, _, _, _)
AppendMissingDeps_NoCheck(comps, component, ds, k) ==
    IF k > Len(ds) THEN comps
    ELSE AppendMissingDeps_NoCheck(Append(comps, ds[k]), component, ds, k + 1)

\* mutant of AppendMissingDeps: warns about a missing dependency and does
\* not append it
AppendMissingDeps_Never(comps, component, ds, k) == comps

\* the inner loop of lines 107-110 from the k-th dependency on: a dependency
\* that is not in the list is appended to it
RECURSIVE AppendMissingDeps(_, _, _, _)
AppendMissingDeps(comps, component, ds, k) ==
    IF k > Len(ds) THEN comps
    ELSE AppendMissingDeps(
             IF ~In(ds[k], comps) THEN Append(comps, ds[k]) ELSE comps,
             component, ds, k + 1)

\* the for loop of line 97 without the lookup of lines 98-104
RECURSIVE ExpandLoop_NoLookup(_, _, _)
ExpandLoop_NoLookup(comps, i, deps) ==
    IF i > Len(comps) THEN [components |-> comps, error |-> NoComponentError]
    ELSE ExpandLoop_NoLookup(
             AppendMissingDeps(comps, comps[i], DictGet(deps, comps[i]), 1),
             i + 1, deps)

\* mutant of ValidateLoop: every component is looked up in
\* AVAILABLE_COMPONENTS before any dependency is appended
ValidateLoop_LookupFirst(comps, i, deps) ==
    IF \E j \in i..Len(comps) : ~In(comps[j], AVAILABLE_COMPONENTS)
    THEN LET j == CHOOSE j \in i..Len(comps) :
                      /\ ~In(comps[j], AVAILABLE_COMPONENTS)
                      /\ \A l \in i..(j - 1) : In(comps[l], AVAILABLE_COMPONENTS)
         IN [components |-> comps, error |-> UnknownComponentError(comps[j])]
    ELSE ExpandLoop_NoLookup(comps, i, deps)

\* the for loop of line 97 over the first n components only
RECURSIVE SnapshotLoop(_, _, _, _)
SnapshotLoop(comps, i, n, deps) ==
    IF i > n THEN [components |-> comps, error |-> NoComponentError]
    ELSE IF ~In(comps[i], AVAILABLE_COMPONENTS)
         THEN [components |-> comps, error |-> UnknownComponentError(comps[i])]
    ELSE SnapshotLoop(
             AppendMissingDeps(comps, comps[i], DictGet(deps, comps[i]), 1),
             i + 1, n, deps)

\* mutant of ValidateLoop: the loop iterates over a copy of self.components
\* and does not visit what it appends
ValidateLoop_Snapshot(comps, i, deps) == SnapshotLoop(comps, i, Len(comps), deps)

\* mutant of ValidateLoop: only the first component is looked up in
\* AVAILABLE_COMPONENTS
RECURSIVE ValidateLoop_FirstOnly(_, _, _)
ValidateLoop_FirstOnly(comps, i, deps) ==
    IF i > Len(comps) THEN [components |-> comps, error |-> NoComponentError]
    ELSE IF i = 1 /\ ~In(comps[i], AVAILABLE_COMPONENTS)
         THEN [components |-> comps, error |-> UnknownComponentError(comps[i])]
    ELSE ValidateLoop_FirstOnly(
             AppendMissingDeps(comps, comps[i], DictGet(deps, comps[i]), 1),
             i + 1, deps)

\* the for loop of line 97 from index i on.  The loop iterates over
\* self.components itself, so it also visits what it appends.
RECURSIVE ValidateLoop(_, _, _)
ValidateLoop(comps, i, deps) ==
    IF i > Len(comps) THEN [components |-> comps, error |-> NoComponentError]
    ELSE IF ~In(comps[i], AVAILABLE_COMPONENTS)
         THEN [components |-> comps, error |-> UnknownComponentError(comps[i])]
    ELSE ValidateLoop(
             AppendMissingDeps(comps, comps[i], DictGet(deps, comps[i]), 1),
             i + 1, deps)

\* validate_components: self.components and the exception raised, if any
ValidateComponentsResult(comps, deps) ==
    LET r == ValidateLoop(comps, 1, deps)
    IN IF r.error # NoComponentError THEN r
       ELSE [components |-> SortByDependencies(r.components, deps),
             error |-> NoComponentError]

\* InfrastructureGenerator.REQUIRES_MODULES: the components that need modules/
services == <<"s","e","r","v","i","c","e","s">>
REQUIRES_MODULES == {services}

\* _check_modules_needed: the value it leaves in self.needs_modules
CheckModulesNeeded(comps, needs_modules_before) ==
    needs_modules_before \/ \E i \in 1..Len(comps) : comps[i] \in REQUIRES_MODULES

\* InfrastructureGenerator.AVAILABLE_CI_PROVIDERS
AVAILABLE_CI_PROVIDERS == <<"gitlab", "github", "azuredevops">>

(***************************************************************************)
(* What generate does to the file system.  The template directory and the  *)
(* fallback sources are inputs: templates is the result of                 *)
(* template_component_dir.glob('*.j2') (empty also when the directory does *)
(* not exist), each template [name, renders]; source describes             *)
(* infra/<component>: [exists, tf_files, subdirs], a file [name, readable], *)
(* a subdirectory [name, files].                                           *)
(***************************************************************************)
infra_dir == Append(output_dir, seg_infra)

\* InfrastructureGenerator.EXCLUDE_FILES
EXCLUDE_FILES ==
    (services :> <<sftp_tf, <<"z","e","n","d","e","s","k",".","t","f">>,
                   <<"v","a","n","t","a",".","t","f">>>>)

Result(tree, error) == [tree |-> tree, error |-> error]

\* the loop of lines 301-317 over the templates files: the first exception
\* ends it, with the files written so far left in tree
RECURSIVE RenderTemplates(_, _, _)
RenderTemplates(files, component_dir, tree) ==
    IF files = <<>> THEN Result(tree, None)
    ELSE LET f == Head(files)
             n == validate_filename(f.name)
             links == LinksOf(tree)
             output_file ==
                 validate_path(Resolve(Append(component_dir, Stem(f.name)), links),
                               BaseDir(Resolve(component_dir, links)), links)
         IN IF n.error # None THEN Result(tree, n.error)
            ELSE IF output_file.error # None THEN Result(tree, output_file.error)
            ELSE IF ~f.renders THEN Result(tree, Raise("TemplateError", "render"))
            ELSE RenderTemplates(Tail(files), component_dir,
                                 WriteFile(tree, output_file.value))

\* the loop of lines 262-268: every .tf file that is not excluded is copied
RECURSIVE CopyTfFiles(_, _, _, _)
CopyTfFiles(files, component_dir, exclude_files, tree) ==
    IF files = <<>> THEN Result(tree, None)
    ELSE LET f == Head(files)
         IN IF In(f.name, exclude_files)
            THEN CopyTfFiles(Tail(files), component_dir, exclude_files, tree)
            ELSE IF ~f.readable THEN Result(tree, Raise("PermissionError", "copy"))
            ELSE CopyTfFiles(Tail(files), component_dir, exclude_files,
                             WriteFile(tree, Append(component_dir, f.name)))

\* the loop of lines 271-277: every subdirectory that is not hidden
\* replaces the one of its name in the component directory
RECURSIVE CopySubdirs(_, _, _)
CopySubdirs(subdirs, component_dir, tree) ==
    IF subdirs = <<>> THEN tree
    ELSE LET d == Head(subdirs)
             dest_subdir == Append(component_dir, d.name)
         IN IF d.name[1] = "."
            THEN CopySubdirs(Tail(subdirs), component_dir, tree)
            ELSE CopySubdirs(Tail(subdirs), component_dir,
                             CopyTree(Rmtree(tree, dest_subdir), dest_subdir, d.files))

\* mutant of GenerateComponentResult: a failed component removes the infra
\* directory of the output
GenerateComponentResult_Cleanup(component, tree, templates, source) ==
    LET component_dir == Append(infra_dir, component)
        made == Mkdir(tree, component_dir)
    IN IF templates = <<>>
       THEN IF source.exists
            THEN LET c == CopyTfFiles(source.tf_files, component_dir,
                                      DictGet(EXCLUDE_FILES, component), made)
                 IN IF c.error # None
                    THEN [tree |-> Rmtree(c.tree, infra_dir), error |-> c.error,
                          outcome |-> "copy_failed"]
                    ELSE [tree |-> CopySubdirs(source.subdirs, component_dir, c.tree),
                          error |-> None, outcome |-> "copied"]
            ELSE [tree |-> made, error |-> None, outcome |-> "no_source"]
       ELSE LET r == RenderTemplates(templates, component_dir, made)
            IN [tree |-> IF r.error # None THEN Rmtree(r.tree, infra_dir) ELSE r.tree,
                error |-> r.error,
                outcome |-> IF r.error # None THEN "render_failed" ELSE "rendered"]

\* _generate_component: the tree it leaves, the exception it raises and
\* which of its paths it took
GenerateComponentResult(component, tree, templates, source) ==
    LET component_dir == Append(infra_dir, component)
        made == Mkdir(tree, component_dir)
    IN IF templates = <<>>
       THEN IF source.exists
            THEN LET c == CopyTfFiles(source.tf_files, component_dir,
                                      DictGet(EXCLUDE_FILES, component), made)
                 IN IF c.error # None
                    THEN [tree |-> c.tree, error |-> c.error, outcome |-> "copy_failed"]
                    ELSE [tree |-> CopySubdirs(source.subdirs, component_dir, c.tree),
                          error |-> None, outcome |-> "copied"]
            ELSE [tree |-> made, error |-> None, outcome |-> "no_source"]
       ELSE LET r == RenderTemplates(templates, component_dir, made)
            IN [tree |-> r.tree, error |-> r.error,
                outcome |-> IF r.error # None THEN "render_failed" ELSE "rendered"]

\* _copy_modules: modules/ (holding the file main.tf) replaces
\* <output>/modules, if it exists
CopyModules(tree, modules_exist) ==
    IF ~modules_exist THEN tree
    ELSE LET modules_dest == Append(output_dir, seg_modules)
         IN CopyTree(Rmtree(tree, modules_dest), modules_dest, <<main_tf>>)

\* the file a CI provider's generator writes (lines 361-362, 396-400,
\* 432-433)
WriteCiConfig(tree, ci_provider) ==
    CASE ci_provider = "gitlab" -> WriteFile(tree, Append(output_dir, seg_gitlab_ci))
      [] ci_provider = "github" ->
           LET workflows_dir == output_dir \o <<seg_github, seg_workflows>>
           IN WriteFile(MkdirParents(tree, workflows_dir),
                        Append(workflows_dir, seg_terraform_ci))
      [] ci_provider = "azuredevops" ->
           WriteFile(tree, Append(output_dir, seg_azure_pipelines))
      [] OTHER -> tree

\* _generate_config_structure: lines 460-461 and 490-491
WriteConfigStructure(tree) ==
    LET config_dir == output_dir \o <<seg_infra, seg_config>>
    IN WriteFile(WriteFile(MkdirParents(tree, config_dir),
                           Append(config_dir, seg_readme)),
                 Append(config_dir, seg_sample_tfvars))

\* _generate_readme: line 608
WriteReadme(tree) == WriteFile(tree, Append(output_dir, seg_readme))

\* _generate_backend_scripts: lines 615-616, 666, 706 and 774
WriteBackendScripts(tree) ==
    LET scripts_dir == Append(output_dir, seg_scripts)
    IN WriteFile(WriteFile(WriteFile(Mkdir(tree, scripts_dir),
                                     Append(scripts_dir, seg_migrate)),
                           Append(scripts_dir, seg_init_backend)),
                 Append(scripts_dir, seg_validate_backend))

(***************************************************************************)
(* State.                                                                  *)
(***************************************************************************)
VARIABLES
    dependencies,       \* the DEPENDENCIES table in force
    sort_input,         \* _sort_by_dependencies: the argument components
    sorted_components,  \* _sort_by_dependencies: local sorted_components
    remaining,          \* _sort_by_dependencies: local remaining
    sort_pc,            \* "loop" while in the while loop, then "returned"
    pc,                 \* main: the step to run next, "done" or "failed"
    project_name,       \* self.project_name
    components,         \* self.components
    environments,       \* self.environments
    config,             \* self.config
    needs_modules,      \* self.needs_modules
    requested,          \* self.components as validate_components found it
    error,              \* the exception that ended the run, and its stage
    comp_idx,           \* generate: index of the next component (line 215)
    last_outcome,       \* what the last _generate_component call did
    fs_log,             \* the writes to the file system so far, in order
    fs,                 \* the file system: the tree of what exists
    template_modules,   \* template-modules/: component -> its *.j2 files
    infra_source,       \* infra/: component -> its fallback source
    val_fn,             \* the validator function called on its own
    val_args,           \* its arguments
    val_result,         \* what it returned or raised
    val_pc,             \* "call" before the call, then "returned"
    rl_pc,              \* RateLimiter: "ready" once constructed
    max_operations,     \* RateLimiter.max_operations
    time_window,        \* RateLimiter.time_window
    operations,         \* RateLimiter.operations
    clock,              \* what time.time() returned last
    rl_calls,           \* the calls so far: [time, result] of each
    aws_pc,             \* run_cleanup: "run", then "returned" or "crashed"
    cleaner,            \* AWSCleaner: self.dry_run, self.test_id, self.bucket_name
    account,            \* what the AWS account holds in its regions
    cleanup_step,       \* run_cleanup: index of the next of cleanup_steps
    invoked,            \* run_cleanup: the steps called so far, in order
    aws_calls,          \* the AWS API calls made so far, in order
    stats,              \* self.stats: the counters raised, and 'errors'
    cleanup_result,     \* what run_cleanup returned
    faults,             \* how many times AWS has answered with a fault
    elk_pc,             \* search_update_field: the step to run next
    elk_index,          \* the @timestamp of the documents of the index
    hits,               \* search_update_field: local hits
    scanned,            \* the _id of the documents the for loop went over
    countdocument,      \* search_update_field: local countdocument
    search_errors       \* how many searches have raised

sortVars == <<dependencies, sort_input, sorted_components, remaining, sort_pc>>
mainVars == <<pc, project_name, components, environments, config, needs_modules,
              requested, error, comp_idx, last_outcome, fs_log>>
worldVars == <<fs, template_modules, infra_source>>
valVars == <<val_fn, val_args, val_result, val_pc>>
rlVars == <<rl_pc, max_operations, time_window, operations, clock, rl_calls>>
awsVars == <<aws_pc, cleaner, account, cleanup_step, invoked, aws_calls, stats,
             cleanup_result, faults>>
elkVars == <<elk_pc, elk_index, hits, scanned, countdocument, search_errors>>
toolVars == <<rlVars, awsVars, elkVars>>
baseVars == <<sortVars, mainVars, worldVars, valVars>>
vars == <<dependencies, sort_input, sorted_components, remaining, sort_pc,
          pc, project_name, components, environments, config, needs_modules,
          requested, error, comp_idx, last_outcome, fs_log,
          fs, template_modules, infra_source,
          val_fn, val_args, val_result, val_pc,
          rl_pc, max_operations, time_window, operations, clock, rl_calls,
          aws_pc, cleaner, account, cleanup_step, invoked, aws_calls, stats,
          cleanup_result, faults,
          elk_pc, elk_index, hits, scanned, countdocument, search_errors>>

\* the generator is not in use
MainIdle ==
    /\ pc = "idle"
    /\ project_name = <<>>
    /\ components = <<>>
    /\ environments = <<>>
    /\ config = [region |-> <<>>, aws_account_id |-> <<>>,
                 ci_provider |-> "", backend_type |-> ""]
    /\ needs_modules = FALSE
    /\ requested = <<>>
    /\ error = [stage |-> "none", type |-> "None", msg |-> "",
                component |-> <<>>, available |-> <<>>]
    /\ comp_idx = 1
    /\ last_outcome = "none"
    /\ fs_log = <<>>

\* no file system and no template directory are in use
WorldIdle ==
    /\ fs = EmptyTree
    /\ template_modules = <<>>
    /\ infra_source = <<>>

\* no validator is called on its own
ValIdle ==
    /\ val_fn = "none"
    /\ val_args = <<>>
    /\ val_result = None
    /\ val_pc = "idle"

\* no RateLimiter has been constructed
RlIdle ==
    /\ rl_pc = "idle"
    /\ max_operations = 0
    /\ time_window = 0
    /\ operations = <<>>
    /\ clock = 0
    /\ rl_calls = <<>>

\* AWSCleaner without --test-id, without --bucket-name
NoTestId == "none"

NoBucketName == "none"

\* an account that holds nothing
EmptyAccount ==
    [load_balancers |-> <<>>, enis |-> <<>>, nat_gateways |-> <<>>, vpcs |-> <<>>,
     db_subnet_groups |-> <<>>, buckets |-> <<>>, stacks |-> <<>>,
     log_groups |-> <<>>]

\* no AWSCleaner has been constructed
AwsIdle ==
    /\ aws_pc = "idle"
    /\ cleaner = [dry_run |-> TRUE, test_id |-> NoTestId,
                  bucket_name |-> NoBucketName]
    /\ account = EmptyAccount
    /\ cleanup_step = 1
    /\ invoked = <<>>
    /\ aws_calls = <<>>
    /\ stats = [incs |-> <<>>, errors |-> <<>>]
    /\ cleanup_result = "none"
    /\ faults = 0

\* search_update_field is not running
ElkIdle ==
    /\ elk_pc = "idle"
    /\ elk_index = <<>>
    /\ hits = <<>>
    /\ scanned = {}
    /\ countdocument = 0
    /\ search_errors = 0

\* nothing but the generator and the validators is in use
ToolsIdle == RlIdle /\ AwsIdle /\ ElkIdle

(***************************************************************************)
(* SortSpec: _sort_by_dependencies, one loop iteration per step, on every  *)
(* component list and every dependency table within the bounds.            *)
(***************************************************************************)
SortNames == {vpc, eks_auto, rds}

SeqsUpTo(S, n) == UNION {[1..m -> S] : m \in 0..n}

\* a fixed order of the names, to draw each dependency list in one order only
\* (line 125 reads a dependency list as a set)
NameRank(n) == CASE n = vpc -> 1 [] n = eks_auto -> 2 [] n = rds -> 3 [] OTHER -> 4

DepLists ==
    {ds \in SeqsUpTo(SortNames, MaxDeps) :
        \A i, j \in 1..Len(ds) : i < j => NameRank(ds[i]) < NameRank(ds[j])}

DepTables == [SortNames -> DepLists]

SortInit ==
    /\ MainIdle
    /\ WorldIdle
    /\ ValIdle
    /\ ToolsIdle
    /\ dependencies \in DepTables
    /\ sort_input \in SeqsUpTo(SortNames, MaxLen)
    /\ sorted_components = <<>>
    /\ remaining = sort_input
    /\ sort_pc = "loop"

\* a pass that places one component (lines 123-128)
SortPlace ==
    /\ sort_pc = "loop"
    /\ remaining # <<>>
    /\ LET p == SortPass(remaining, sorted_components, sort_input, dependencies)
       IN /\ ~p.brk
          /\ sorted_components' = p.sorted
          /\ remaining' = p.remaining
    /\ UNCHANGED <<dependencies, sort_input, sort_pc, mainVars, worldVars, valVars, toolVars>>

\* a pass that finds nothing to place (lines 129-134), then the return
SortCycleFallback ==
    /\ sort_pc = "loop"
    /\ remaining # <<>>
    /\ LET p == SortPass(remaining, sorted_components, sort_input, dependencies)
       IN /\ p.brk
          /\ sorted_components' = p.sorted
          /\ remaining' = p.remaining
    /\ sort_pc' = "returned"
    /\ UNCHANGED <<dependencies, sort_input, mainVars, worldVars, valVars, toolVars>>

\* the while condition fails: return sorted_components (line 136)
SortReturn ==
    /\ sort_pc = "loop"
    /\ remaining = <<>>
    /\ sort_pc' = "returned"
    /\ UNCHANGED <<dependencies, sort_input, sorted_components, remaining, mainVars, worldVars, valVars, toolVars>>

SortNext == SortPlace \/ SortCycleFallback \/ SortReturn

SortSpec == SortInit /\ [][SortNext]_vars

\* _sort_by_dependencies runs on: a sequential loop takes its next pass
SortLiveSpec == SortInit /\ [][SortNext]_vars /\ WF_vars(SortNext)

(***************************************************************************)
(* Spec: one run of main() from the construction of the generator on       *)
(* (lines 913-921), with the DEPENDENCIES table of the source.  The steps  *)
(* run in program order; pc names the next one.                            *)
(***************************************************************************)
dev == <<"d","e","v">>
acme_raw == <<" ","A","c","m","e">>
tmp == <<"t","m","p">>
us_east_1 == <<"u","s","-","e","a","s","t","-","1">>
mars_1 == <<"m","a","r","s","-","1">>
account_ok == <<"1","2","3","4","5","6","7","8","9","0","0","0">>

RequestNames == {terraform_backend, vpc, eks_auto, rds, unknown_component}

ProjectNameInputs == {acme_raw, tmp}
EnvironmentInputs == {<<dev>>, <<dev, <<"u","_","t">>>>}
RegionInputs == {us_east_1, mars_1}
AccountIdInputs == {account_ok, <<>>}
CiProviderInputs == {"gitlab", "github", "azuredevops", "jenkins"}
BackendTypeInputs == {"local", "s3"}

NoError ==
    [stage |-> "none", type |-> "None", msg |-> "",
     component |-> <<>>, available |-> <<>>]

\* the exception e, raised at stage
ErrorAt(stage, e) ==
    [stage |-> stage, type |-> e.type, msg |-> e.msg,
     component |-> <<>>, available |-> <<>>]

\* a write to the file system: what is written and, for a component
\* directory, for which component
FsEvent(op, what, component) == [op |-> op, what |-> what, component |-> component]

SortIdle ==
    /\ sort_input = <<>>
    /\ sorted_components = <<>>
    /\ remaining = <<>>
    /\ sort_pc = "idle"

\* the arguments main can hand to InfrastructureGenerator (lines 913-918)
\* that __init__ validates
ConstructorInputs ==
    [project_name : ProjectNameInputs,
     components : SeqsUpTo(RequestNames, MaxRequested),
     environments : EnvironmentInputs,
     region : RegionInputs,
     aws_account_id : AccountIdInputs]

NoConfig ==
    [region |-> <<>>, aws_account_id |-> <<>>, ci_provider |-> "", backend_type |-> ""]

\* infra/<component> does not exist
NoSource == [exists |-> FALSE, tf_files |-> <<>>, subdirs |-> <<>>]

\* what is known of infra/<component>
SourceOf(component) ==
    IF component \in DOMAIN infra_source THEN infra_source[component] ELSE NoSource

\* a template that renders, and one whose rendering raises
Template(name) == [name |-> name, renders |-> TRUE]
BrokenTemplate(name) == [name |-> name, renders |-> FALSE]

\* a source file that can be copied, and one that cannot be read
SourceFile(name) == [name |-> name, readable |-> TRUE]
UnreadableFile(name) == [name |-> name, readable |-> FALSE]

ComponentNames == {AVAILABLE_COMPONENTS[i] : i \in 1..Len(AVAILABLE_COMPONENTS)}

\* template-modules/ with two templates for every component
AllTemplates ==
    [c \in ComponentNames |-> <<Template(main_tf_j2), Template(variables_tf_j2)>>]

\* template-modules/ without templates for eks-auto and with a template of
\* rds that does not render
MixedTemplates ==
    (terraform_backend :> <<Template(main_tf_j2)>>) @@
    (vpc :> <<Template(main_tf_j2), Template(variables_tf_j2)>>) @@
    (eks_auto :> <<>>) @@
    (rds :> <<Template(main_tf_j2), BrokenTemplate(variables_tf_j2)>>)

\* template-modules/ with a file named "..j2" for vpc
BadNameTemplates ==
    (terraform_backend :> <<Template(main_tf_j2)>>) @@
    (vpc :> <<Template(main_tf_j2), Template(dotdot_j2)>>) @@
    (eks_auto :> <<Template(main_tf_j2)>>) @@
    (rds :> <<Template(main_tf_j2)>>)

\* no template-modules/ at all
NoTemplates == [c \in ComponentNames |-> <<>>]

\* no infra/ at all
NoSources == [c \in ComponentNames |-> NoSource]

\* infra/ with a source for vpc, one with an unreadable file for eks-auto
\* and one without .tf files for rds
SomeSources ==
    (terraform_backend :> NoSource) @@
    (vpc :> [exists |-> TRUE,
             tf_files |-> <<SourceFile(main_tf), SourceFile(variables_tf)>>,
             subdirs |-> <<[name |-> seg_values, files |-> <<seg_dev_yaml>>],
                           [name |-> seg_dot_git, files |-> <<seg_config>>]>>]) @@
    (eks_auto :> [exists |-> TRUE,
                  tf_files |-> <<SourceFile(main_tf), UnreadableFile(variables_tf)>>,
                  subdirs |-> <<>>]) @@
    (rds :> [exists |-> TRUE, tf_files |-> <<>>,
             subdirs |-> <<[name |-> seg_values, files |-> <<seg_dev_yaml>>]>>])

\* tree as a later run finds it: nothing in it is of that run
Earlier(tree) == [p \in DOMAIN tree |-> Entry(tree[p].kind, 0)]

\* the output of an earlier run for vpc and rds with the gitlab provider,
\* when the templates of vpc were main.tf.j2 and outputs.tf.j2 and infra/rds
\* held values/dev.yaml and values/prod.yaml
EarlierOutput ==
    LET begun == Mkdir(MkdirParents(FreshTree, output_dir), infra_dir)
        with_vpc == GenerateComponentResult(vpc, begun,
                        <<Template(main_tf_j2), Template(outputs_tf_j2)>>,
                        NoSource).tree
        with_rds == GenerateComponentResult(rds, with_vpc, <<>>,
                        [exists |-> TRUE, tf_files |-> <<>>,
                         subdirs |-> <<[name |-> seg_values,
                                        files |-> <<seg_dev_yaml, seg_prod_yaml>>]>>]).tree
    IN Earlier(WriteReadme(WriteConfigStructure(WriteCiConfig(with_rds, "gitlab"))))

\* EarlierOutput in which infra/vpc/main.tf has been replaced by a symbolic
\* link that leaves the output directory
LinkedOutput ==
    [p \in DOMAIN EarlierOutput |->
        IF p = infra_dir \o <<vpc, main_tf>> THEN Entry("link", 0)
        ELSE EarlierOutput[p]]

\* what a run of main can find: no output yet and every template, or the
\* output of an earlier run and templates that do not all render
StartWorlds ==
    {[fs |-> FreshTree, templates |-> AllTemplates, sources |-> NoSources],
     [fs |-> EarlierOutput, templates |-> MixedTemplates, sources |-> NoSources]}

Init ==
    /\ SortIdle
    /\ ValIdle
    /\ ToolsIdle
    /\ \E w \in StartWorlds :
          /\ fs = w.fs
          /\ template_modules = w.templates
          /\ infra_source = w.sources
    /\ dependencies = DEPENDENCIES
    /\ pc = "construct"
    /\ project_name = <<>>
    /\ components = <<>>
    /\ environments = <<>>
    /\ config = NoConfig
    /\ needs_modules = FALSE
    /\ requested = <<>>
    /\ error = NoError
    /\ comp_idx = 1
    /\ last_outcome = "none"
    /\ fs_log = <<>>

\* mutant of Construct: __init__ creates the output directory before it
\* validates its inputs
Construct_MkdirFirst ==
    /\ pc = "construct"
    /\ fs' = MkdirParents(fs, output_dir)
    /\ \E a \in ConstructorInputs :
          LET v == validate_all_inputs(a.project_name, a.components,
                                       a.environments, a.region,
                                       a.aws_account_id)
          IN IF v.error # None
             THEN /\ pc' = "failed"
                  /\ error' = ErrorAt("construct", v.error)
                  /\ UNCHANGED <<project_name, components, environments, config>>
             ELSE /\ pc' = "validate_components"
                  /\ project_name' = v.project_name
                  /\ components' = v.components
                  /\ environments' = v.environments
                  /\ \E ci \in CiProviderInputs, backend \in BackendTypeInputs :
                        config' = [region |-> a.region,
                                   aws_account_id |-> a.aws_account_id,
                                   ci_provider |-> ci,
                                   backend_type |-> backend]
                  /\ UNCHANGED error
    /\ UNCHANGED <<needs_modules, requested, comp_idx, last_outcome,
                   fs_log, sortVars, template_modules, infra_source, valVars, toolVars>>

\* InfrastructureGenerator(...) (lines 913-918): __init__ validates all
\* inputs and keeps the validated values and the config.  The output
\* directory is a fixed valid path, which validate_path returns.
Construct ==
    /\ pc = "construct"
    /\ \E a \in ConstructorInputs :
          LET v == validate_all_inputs(a.project_name, a.components,
                                       a.environments, a.region,
                                       a.aws_account_id)
          IN IF v.error # None
             THEN /\ pc' = "failed"
                  /\ error' = ErrorAt("construct", v.error)
                  /\ UNCHANGED <<project_name, components, environments, config>>
             ELSE /\ pc' = "validate_components"
                  /\ project_name' = v.project_name
                  /\ components' = v.components
                  /\ environments' = v.environments
                  /\ \E ci \in CiProviderInputs, backend \in BackendTypeInputs :
                        config' = [region |-> a.region,
                                   aws_account_id |-> a.aws_account_id,
                                   ci_provider |-> ci,
                                   backend_type |-> backend]
                  /\ UNCHANGED error
    /\ UNCHANGED <<needs_modules, requested, comp_idx, last_outcome,
                   fs_log, sortVars, worldVars, valVars, toolVars>>

\* generator.validate_components() (line 920)
ValidateComponents ==
    /\ pc = "validate_components"
    /\ requested' = components
    /\ LET r == ValidateComponentsResult(components, dependencies)
       IN /\ components' = r.components
          /\ IF r.error # NoComponentError
             THEN /\ pc' = "failed"
                  /\ error' = [stage |-> "validate_components",
                               type |-> r.error.type, msg |-> r.error.msg,
                               component |-> r.error.component,
                               available |-> r.error.available]
             ELSE /\ pc' = "generate"
                  /\ UNCHANGED error
    /\ UNCHANGED <<config, project_name, environments, needs_modules, comp_idx,
                   last_outcome, fs_log, sortVars, worldVars, valVars, toolVars>>

\* mutant of AfterComponent: the loop ends one component early
AfterComponent_OneEarly(idx, comps) ==
    IF idx >= Len(comps) - 1 THEN "generate_ci_config" ELSE "generate_component"

\* the for loop of line 215 after the component at index idx: the next
\* component, or on to line 219 after the last one
AfterComponent(idx, comps) ==
    IF idx >= Len(comps) THEN "generate_ci_config" ELSE "generate_component"

\* generate, lines 202-212: the output directories, _check_modules_needed
\* and, if modules are needed and modules/ exists, _copy_modules
GenerateBegin ==
    /\ pc = "generate"
    /\ needs_modules' = CheckModulesNeeded(components, needs_modules)
    /\ \E modules_exist \in BOOLEAN :
          /\ fs_log' = fs_log
                \o <<FsEvent("mkdir", "output_dir", <<>>),
                     FsEvent("mkdir", "infra", <<>>)>>
                \o (IF needs_modules' /\ modules_exist
                    THEN <<FsEvent("copytree", "modules", <<>>)>>
                    ELSE <<>>)
          /\ fs' = LET made == Mkdir(MkdirParents(fs, output_dir), infra_dir)
                   IN IF needs_modules' THEN CopyModules(made, modules_exist)
                      ELSE made
    /\ comp_idx' = 1
    /\ pc' = AfterComponent(0, components)
    /\ UNCHANGED <<config, project_name, components, environments, requested,
                   error, last_outcome, sortVars, template_modules, infra_source,
                   valVars, toolVars>>

\* what one call of _generate_component can do, depending on the template
\* and source directories it finds
ComponentOutcomes ==
    {"rendered",        \* a template bundle: every template rendered
     "copied",          \* no bundle, infra/<component> exists: files copied
     "no_source",       \* neither exists: returns with the directory alone
     "render_failed",   \* a filename, path, template or write error
     "copy_failed"}     \* a copy error

ComponentFailed(outcome) == outcome \in {"render_failed", "copy_failed"}

\* one iteration of the loop of lines 215-216: _generate_component
GenerateComponent ==
    /\ pc = "generate_component"
    /\ comp_idx <= Len(components)
    /\ LET component == components[comp_idx]
           r == GenerateComponentResult(component, fs,
                                        DictGet(template_modules, component),
                                        SourceOf(component))
       IN /\ last_outcome' = r.outcome
          /\ fs' = r.tree
          /\ fs_log' = Append(fs_log, FsEvent("mkdir", "component_dir", component))
          /\ IF r.error # None
             THEN /\ pc' = "failed"
                  /\ error' = ErrorAt("generate_component", r.error)
                  /\ UNCHANGED comp_idx
             ELSE /\ comp_idx' = comp_idx + 1
                  /\ pc' = AfterComponent(comp_idx, components)
                  /\ UNCHANGED error
    /\ UNCHANGED <<config, project_name, components, environments, needs_modules,
                   requested, sortVars, template_modules, infra_source, valVars, toolVars>>

\* what _generate_ci_config can find for a known provider
CiOutcomes == {"written", "no_template_dir", "template_error", "yaml_error"}

\* _generate_ci_config (line 219): the provider's generator, or nothing for
\* an unknown provider
GenerateCiConfig ==
    /\ pc = "generate_ci_config"
    /\ IF In(config.ci_provider, AVAILABLE_CI_PROVIDERS)
       THEN \E outcome \in CiOutcomes :
               CASE outcome = "written" ->
                      /\ fs_log' = Append(fs_log, FsEvent("write", "ci_config", <<>>))
                      /\ fs' = WriteCiConfig(fs, config.ci_provider)
                      /\ pc' = "generate_config_structure"
                      /\ UNCHANGED error
                 [] outcome = "yaml_error" ->
                      /\ fs_log' = Append(fs_log, FsEvent("write", "ci_config", <<>>))
                      /\ fs' = WriteCiConfig(fs, config.ci_provider)
                      /\ pc' = "failed"
                      /\ error' = ErrorAt("generate_ci_config",
                                          Raise("ValueError", "YAML syntax error"))
                 [] outcome = "no_template_dir" ->
                      /\ pc' = "failed"
                      /\ error' = ErrorAt("generate_ci_config",
                             Raise("FileNotFoundError", "template directory not found"))
                      /\ UNCHANGED <<fs_log, fs>>
                 [] outcome = "template_error" ->
                      /\ pc' = "failed"
                      /\ error' = ErrorAt("generate_ci_config",
                                          Raise("Exception", "template error"))
                      /\ UNCHANGED <<fs_log, fs>>
       ELSE /\ pc' = "generate_config_structure"
            /\ UNCHANGED <<fs_log, fs, error>>
    /\ UNCHANGED <<config, project_name, components, environments, needs_modules,
                   requested, comp_idx, last_outcome, sortVars, template_modules,
                   infra_source, valVars, toolVars>>

\* _generate_config_structure (line 222)
GenerateConfigStructure ==
    /\ pc = "generate_config_structure"
    /\ fs_log' = Append(fs_log, FsEvent("write", "config_structure", <<>>))
    /\ fs' = WriteConfigStructure(fs)
    /\ pc' = "generate_readme"
    /\ UNCHANGED <<config, project_name, components, environments, needs_modules,
                   requested, error, comp_idx, last_outcome, sortVars,
                   template_modules, infra_source, valVars, toolVars>>

\* _generate_readme (line 225)
GenerateReadme ==
    /\ pc = "generate_readme"
    /\ fs_log' = Append(fs_log, FsEvent("write", "readme", <<>>))
    /\ fs' = WriteReadme(fs)
    /\ pc' = "generate_backend_scripts"
    /\ UNCHANGED <<config, project_name, components, environments, needs_modules,
                   requested, error, comp_idx, last_outcome, sortVars,
                   template_modules, infra_source, valVars, toolVars>>

\* lines 228-229: _generate_backend_scripts, for the s3 backend only
GenerateBackendScripts ==
    /\ pc = "generate_backend_scripts"
    /\ config.backend_type = "s3"
    /\ fs_log' = Append(fs_log, FsEvent("write", "backend_scripts", <<>>))
    /\ fs' = WriteBackendScripts(fs)
    /\ pc' = "finish"
    /\ UNCHANGED <<config, project_name, components, environments, needs_modules,
                   requested, error, comp_idx, last_outcome, sortVars,
                   template_modules, infra_source, valVars, toolVars>>

\* lines 231-238 and 923-928: the closing messages; main returns
Finish ==
    /\ \/ pc = "finish"
       \/ pc = "generate_backend_scripts" /\ config.backend_type # "s3"
    /\ pc' = "done"
    /\ UNCHANGED <<config, project_name, components, environments, needs_modules,
                   requested, error, comp_idx, last_outcome, fs_log, sortVars,
                   worldVars, valVars, toolVars>>

Next ==
    \/ Construct
    \/ ValidateComponents
    \/ GenerateBegin
    \/ GenerateComponent
    \/ GenerateCiConfig
    \/ GenerateConfigStructure
    \/ GenerateReadme
    \/ GenerateBackendScripts
    \/ Finish

Spec == Init /\ [][Next]_vars

(***************************************************************************)
(* GenSpec: generate() on a generator that has been constructed and whose  *)
(* validate_components() has returned (lines 913-920), for every request   *)
(* within the bound and every output tree, template directory and fallback *)
(* source below.                                                           *)
(***************************************************************************)
\* the requests that validate_components accepts
GenRequests ==
    {req \in SeqsUpTo(ComponentNames, MaxGenerated) : req # <<>>}

GenTrees == {FreshTree, EarlierOutput, LinkedOutput}

GenTemplates == {AllTemplates, MixedTemplates, BadNameTemplates, NoTemplates}

GenSources == {NoSources, SomeSources}

GenInit ==
    /\ SortIdle
    /\ ValIdle
    /\ ToolsIdle
    /\ dependencies = DEPENDENCIES
    /\ pc = "generate"
    /\ project_name = validate_project_name(acme_raw).value
    /\ requested \in GenRequests
    /\ components = ValidateComponentsResult(requested, DEPENDENCIES).components
    /\ environments = <<dev>>
    /\ config \in [region : {us_east_1}, aws_account_id : {account_ok},
                    ci_provider : CiProviderInputs,
                    backend_type : BackendTypeInputs]
    /\ needs_modules = FALSE
    /\ error = NoError
    /\ comp_idx = 1
    /\ last_outcome = "none"
    /\ fs_log = <<>>
    /\ fs \in GenTrees
    /\ template_modules \in GenTemplates
    /\ infra_source \in GenSources

GenNext ==
    \/ GenerateBegin
    \/ GenerateComponent
    \/ GenerateCiConfig
    \/ GenerateConfigStructure
    \/ GenerateReadme
    \/ GenerateBackendScripts
    \/ Finish

GenSpec == GenInit /\ [][GenNext]_vars

(***************************************************************************)
(* ValidatorSpec: one call of a function of scripts/security/validator.py  *)
(* on every sampled argument.                                              *)
(***************************************************************************)
\* n times the character (or element) c
Rep(c, n) == [i \in 1..n |-> c]

NameChars == {"a", "1", "-", "A", " ", "_", "U+FF56"}

ProjectNameSamples ==
    SeqsUpTo(NameChars, MaxNameLen)
        \cup ReservedProjectNames
        \cup {<<"t","e","s","t">>, <<"T","m","p">>, <<"t","m","p","\n">>}
        \cup {Rep("a", n) : n \in {31, 32, 63, 64}}
        \cup {<<"a">> \o Rep("-", 61) \o <<"1">>, <<" ">> \o Rep("a", 63) \o <<" ">>}

Pads == SeqsUpTo({" ", "\n"}, MaxPad)

AccountCores ==
    FakeAccountIds
        \cup {account_ok, Rep("1", 12), Rep("1", 11), Rep("1", 13), <<>>,
              Rep("1", 11) \o <<"a">>, Rep("1", 5) \o <<" ">> \o Rep("1", 6),
              Rep("U+0661", 12), Rep("0", 11) \o <<"U+0662">>}

AccountIdSamples ==
    {l \o core \o r : l \in Pads, r \in Pads, core \in AccountCores}

ComponentSamples ==
    {vpc, <<" ","V","P","C">>, <<"U+FF56","p","c">>, <<"-","x">>, <<>>}

ComponentListSamples ==
    SeqsUpTo(ComponentSamples, MaxList)
        \cup {Rep(c, n) : c \in {vpc, <<" ","V","P","C">>}, n \in {20, 21, 25}}

seg_link == <<"l","i","n","k">>

PathSegments == {seg_infra, dotdot, dot, seg_etc, seg_link}

\* the symbolic links a sampled path can meet: none, or <base>/link, which
\* points to /etc
LinkSamples == {NoLinks, (Append(output_dir, seg_link) :> <<seg_etc>>)}

PathSamples ==
    {output_dir \o tail : tail \in SeqsUpTo(PathSegments, MaxSegs)}
        \cup {output_dir \o <<dotdot, dotdot, seg_etc, seg_passwd>>,
              <<seg_etc, seg_passwd>>, <<seg_work>>, <<>>,
              Append(output_dir, Rep("a", 4096)),
              Append(output_dir, <<"a", "NUL", "b">>)}

PathArgSamples ==
    [path : PathSamples, base_dir : {BaseDir(output_dir), NoBaseDir},
     links : LinkSamples]

key_globals == <<"_","_","g","l","o","b","a","l","s","_","_">>
key_builtins == <<"_","_","b","u","i","l","t","i","n","s","_","_">>

ContextKeys == {<<"a">>, <<"_","p">>}

\* values that hold no dict of their own level: a string, and a list of a
\* string and a dict
LeafValues ==
    {StrValue(<<"x", "NUL">>),
     ListValue(<<StrValue(<<"NUL", "y">>),
                 DictValue((key_globals :> IntValue(1)) @@ (<<"b">> :> IntValue(2)))>>)}

FlatContexts == UNION {[keys -> LeafValues] : keys \in SUBSET ContextKeys}

\* the dicts nested at most depth deep; at most one value of a dict is a
\* dict itself
RECURSIVE Contexts(_)
Contexts(depth) ==
    IF depth <= 1 THEN FlatContexts
    ELSE FlatContexts
           \cup UNION {{[f EXCEPT ![k] = DictValue(c)] :
                          k \in DOMAIN f, c \in Contexts(depth - 1)} :
                       f \in FlatContexts}

ContextSamples ==
    Contexts(MaxDepth)
        \cup {(key_builtins :> IntValue(1)) @@ (<<"k">> :> IntValue(2))}

\* the arguments of validate_all_inputs as __init__ hands them on (lines
\* 68-74): an account id that is missing from config arrives as ''
AllInputsSamples ==
    [project_name : {acme_raw}, components : {<<vpc>>, <<>>},
     environments : {<<dev>>}, region : {us_east_1, mars_1},
     aws_account_id : {account_ok, <<>>, Rep("0", 12)}]

\* the keys of the template context
key_project_name == <<"p","r","o","j","e","c","t","_","n","a","m","e">>
key_environments == <<"e","n","v","i","r","o","n","m","e","n","t","s">>
key_region == <<"r","e","g","i","o","n">>
key_aws_account_id == <<"a","w","s","_","a","c","c","o","u","n","t","_","i","d">>
key_aws_profile == <<"a","w","s","_","p","r","o","f","i","l","e">>
key_backend_type == <<"b","a","c","k","e","n","d","_","t","y","p","e">>
key_state_bucket == <<"s","t","a","t","e","_","b","u","c","k","e","t">>
key_dynamodb_table == <<"d","y","n","a","m","o","d","b","_","t","a","b","l","e">>

\* self.config.get(key, default)
ConfigGet(cfg, key, default) == IF key \in DOMAIN cfg THEN cfg[key] ELSE default

\* a list of strings as a template value
StrList(names) == ListValue([i \in 1..Len(names) |-> StrValue(names[i])])

\* the dict display of lines 284-295: **self.config stands last, so an entry
\* of self.config replaces the entry of the same key written before it
TemplateContext(name, envs, cfg) ==
    cfg @@ (key_project_name :> StrValue(name))
        @@ (key_environments :> StrList(envs))
        @@ (key_region :> ConfigGet(cfg, key_region, StrValue(us_east_1)))
        @@ (key_aws_account_id :> ConfigGet(cfg, key_aws_account_id, StrValue(<<>>)))
        @@ (key_aws_profile
               :> ConfigGet(cfg, key_aws_profile, StrValue(<<"d","e","f","a","u","l","t">>)))
        @@ (key_backend_type
               :> ConfigGet(cfg, key_backend_type, StrValue(<<"l","o","c","a","l">>)))
        @@ (key_state_bucket :> ConfigGet(cfg, key_state_bucket, StrValue(<<>>)))
        @@ (key_dynamodb_table :> ConfigGet(cfg, key_dynamodb_table, StrValue(<<>>)))

\* the context that the templates of a component are rendered with (lines
\* 284-298)
RenderContext(name, envs, cfg) ==
    sanitize_template_context(TemplateContext(name, envs, cfg))

\* the config mappings of a generator: empty, with a region, and with keys
\* that the context also writes itself
ConfigSamples ==
    {<<>>,
     (key_region :> StrValue(us_east_1)),
     (key_region :> StrValue(us_east_1))
         @@ (key_project_name :> StrValue(<<"E","v","i","l"," ","$","{","x","}">>)),
     (key_environments :> StrList(<<<<"p","r","o","d">>>>)),
     (key_backend_type :> StrValue(<<"s","3">>))
         @@ (key_state_bucket :> StrValue(<<"b">>))}

\* a generator that __init__ has built: its validated project_name and
\* environments, and its config
ContextArgSamples ==
    [project_name : {<<"a","c","m","e">>, tmp},
     environments : {<<dev>>, <<dev, <<"q","a">>>>},
     config : ConfigSamples]

\* a flag that is not on the command line, before argparse gives it its
\* default
NotGiven == "not given"

\* a flag after parse_args (lines 808-857): its value, or the default of
\* add_argument, or None for a flag without default
ArgOrDefault(flag, default) == IF flag = NotGiven THEN default ELSE flag

PyNone == "None"

\* a or b of Python, for strings and None
PyOr(a, b) == IF a = PyNone \/ a = "" THEN b ELSE a

\* config.get(key, default) for the config that main loads (lines 866-869)
FileGet(file, key, default) == IF key \in DOMAIN file THEN file[key] ELSE default

\* main, lines 859-910: the config that InfrastructureGenerator is given, for
\* the flags of the command line and the content of the --config file;
\* sys.exit(1) when backend s3 lacks its bucket or table (lines 885-892)
MainConfig(flags, file) ==
    LET args == [region |-> ArgOrDefault(flags.region, "us-east-1"),
                 ci_provider |-> ArgOrDefault(flags.ci_provider, "gitlab"),
                 backend_type |-> ArgOrDefault(flags.backend_type, "local"),
                 state_bucket |-> ArgOrDefault(flags.state_bucket, PyNone),
                 dynamodb_table |-> ArgOrDefault(flags.dynamodb_table, PyNone)]
        backend_type == PyOr(args.backend_type, FileGet(file, "backend_type", "local"))
        state_bucket == IF backend_type = "s3"
                        THEN PyOr(args.state_bucket, FileGet(file, "state_bucket", ""))
                        ELSE ""
        dynamodb_table == IF backend_type = "s3"
                          THEN PyOr(args.dynamodb_table,
                                    FileGet(file, "dynamodb_table", ""))
                          ELSE ""
    IN IF backend_type = "s3" /\ (state_bucket = "" \/ dynamodb_table = "")
       THEN Fail("SystemExit")
       ELSE Ok(("region" :> args.region)
               @@ ("ci_provider"
                      :> PyOr(args.ci_provider, FileGet(file, "ci_provider", "gitlab")))
               @@ ("backend_type" :> backend_type)
               @@ ("state_bucket" :> state_bucket)
               @@ ("dynamodb_table" :> dynamodb_table)
               @@ file)

\* command lines and config files of main
MainArgSamples ==
    [flags : [region : {NotGiven, "eu-west-1"},
              ci_provider : {NotGiven, "github"},
              backend_type : {NotGiven, "s3"},
              state_bucket : {NotGiven, "bucket"},
              dynamodb_table : {NotGiven, "table"}],
     file : {<<>>,
             ("region" :> "ap-south-1"),
             ("ci_provider" :> "azuredevops"),
             ("backend_type" :> "s3") @@ ("state_bucket" :> "filebucket")
                 @@ ("dynamodb_table" :> "filetable")}]

ValidatorInit ==
    /\ MainIdle
    /\ SortIdle
    /\ WorldIdle
    /\ ToolsIdle
    /\ dependencies = DEPENDENCIES
    /\ val_pc = "call"
    /\ val_result = None
    /\ \/ val_fn = "validate_project_name" /\ val_args \in ProjectNameSamples
       \/ val_fn = "validate_aws_account_id" /\ val_args \in AccountIdSamples
       \/ val_fn = "validate_components_list" /\ val_args \in ComponentListSamples
       \/ val_fn = "validate_path" /\ val_args \in PathArgSamples
       \/ val_fn = "sanitize_template_context" /\ val_args \in ContextSamples
       \/ val_fn = "validate_all_inputs" /\ val_args \in AllInputsSamples
       \/ val_fn = "template_context" /\ val_args \in ContextArgSamples
       \/ val_fn = "main_config" /\ val_args \in MainArgSamples

\* the function val_fn returns result or raises it
Returns(fn, result) ==
    /\ val_pc = "call"
    /\ val_fn = fn
    /\ val_result' = result
    /\ val_pc' = "returned"
    /\ UNCHANGED <<val_fn, val_args, sortVars, mainVars, worldVars, toolVars>>

CallValidateProjectName ==
    Returns("validate_project_name", validate_project_name(val_args))

CallValidateAwsAccountId ==
    Returns("validate_aws_account_id", validate_aws_account_id(val_args))

CallValidateComponentsList ==
    Returns("validate_components_list", validate_components_list(val_args))

CallValidatePath ==
    Returns("validate_path",
            validate_path(val_args.path, val_args.base_dir, val_args.links))

CallSanitizeTemplateContext ==
    Returns("sanitize_template_context", Ok(sanitize_template_context(val_args)))

CallValidateAllInputs ==
    Returns("validate_all_inputs",
            LET v == validate_all_inputs(val_args.project_name, val_args.components,
                                         val_args.environments, val_args.region,
                                         val_args.aws_account_id)
            IN [value |-> v, error |-> v.error])

\* _generate_component builds the context of its templates (lines 284-298)
BuildTemplateContext ==
    Returns("template_context",
            Ok(RenderContext(val_args.project_name, val_args.environments,
                             val_args.config)))

\* main merges the flags with the config file (lines 859-910)
MergeConfig == Returns("main_config", MainConfig(val_args.flags, val_args.file))

ValidatorNext ==
    \/ CallValidateProjectName
    \/ CallValidateAwsAccountId
    \/ CallValidateComponentsList
    \/ CallValidatePath
    \/ CallSanitizeTemplateContext
    \/ CallValidateAllInputs
    \/ BuildTemplateContext
    \/ MergeConfig

ValidatorSpec == ValidatorInit /\ [][ValidatorNext]_vars

(***************************************************************************)
(* ExpandSpec: one call of validate_components (lines 95-113) on every     *)
(* component list and every DEPENDENCIES table within the bounds.          *)
(***************************************************************************)
ExpandInit ==
    /\ SortIdle
    /\ WorldIdle
    /\ ValIdle
    /\ ToolsIdle
    /\ dependencies \in DepTables
    /\ pc = "validate_components"
    /\ components \in SeqsUpTo(RequestNames, MaxRequested)
    /\ project_name = <<>>
    /\ environments = <<>>
    /\ config = [region |-> <<>>, aws_account_id |-> <<>>,
                 ci_provider |-> "", backend_type |-> ""]
    /\ needs_modules = FALSE
    /\ requested = <<>>
    /\ error = [stage |-> "none", type |-> "None", msg |-> "",
                component |-> <<>>, available |-> <<>>]
    /\ comp_idx = 1
    /\ last_outcome = "none"
    /\ fs_log = <<>>

ExpandNext == ValidateComponents

ExpandSpec == ExpandInit /\ [][ExpandNext]_vars

(***************************************************************************)
(* RateLimiterSpec: a RateLimiter (scripts/security/validator.py, lines    *)
(* 298-335) and its calls of check_rate_limit.  Time is counted in whole   *)
(* ticks; time.time() never goes back and advances by at most MaxStep      *)
(* between two calls.                                                      *)
(***************************************************************************)
\* mutant of KeepRecent: an operation exactly one time window old is kept
RECURSIVE KeepRecent_Inclusive(_, _, _)
KeepRecent_Inclusive(ops, current_time, window) ==
    IF ops = <<>> THEN <<>>
    ELSE IF current_time - Head(ops) <= window
         THEN <<Head(ops)>> \o KeepRecent_Inclusive(Tail(ops), current_time, window)
    ELSE KeepRecent_Inclusive(Tail(ops), current_time, window)

\* the list comprehension of lines 324-327: the operations younger than
\* the time window
RECURSIVE KeepRecent(_, _, _)
KeepRecent(ops, current_time, window) ==
    IF ops = <<>> THEN <<>>
    ELSE IF current_time - Head(ops) < window
         THEN <<Head(ops)>> \o KeepRecent(Tail(ops), current_time, window)
    ELSE KeepRecent(Tail(ops), current_time, window)

\* mutant of check_rate_limit: the limit is compared with > instead of >=
check_rate_limit_OneMore(ops, max_ops, window, current_time) ==
    LET kept == KeepRecent(ops, current_time, window)
    IN IF Len(kept) > max_ops
       THEN [operations |-> kept, result |-> FALSE]
       ELSE [operations |-> Append(kept, current_time), result |-> TRUE]

\* check_rate_limit at current_time: the operations it leaves and what it
\* returns
check_rate_limit(ops, max_ops, window, current_time) ==
    LET kept == KeepRecent(ops, current_time, window)
    IN IF Len(kept) >= max_ops
       THEN [operations |-> kept, result |-> FALSE]
       ELSE [operations |-> Append(kept, current_time), result |-> TRUE]

\* RateLimiter(max_operations, time_window) (lines 301-311)
RateLimiterInit ==
    /\ MainIdle
    /\ SortIdle
    /\ WorldIdle
    /\ ValIdle
    /\ AwsIdle
    /\ ElkIdle
    /\ dependencies = DEPENDENCIES
    /\ rl_pc = "ready"
    /\ max_operations \in 0..MaxOps
    /\ time_window \in 1..MaxWindow
    /\ operations = <<>>
    /\ clock = 0
    /\ rl_calls = <<>>

\* limiter.check_rate_limit() when time.time() has advanced by dt
CheckRateLimit ==
    /\ rl_pc = "ready"
    /\ Len(rl_calls) < MaxCalls
    /\ \E dt \in 0..MaxStep :
          /\ clock + dt <= MaxTime
          /\ LET r == check_rate_limit(operations, max_operations, time_window,
                                       clock + dt)
             IN /\ clock' = clock + dt
                /\ operations' = r.operations
                /\ rl_calls' = Append(rl_calls, [time |-> clock + dt,
                                                 result |-> r.result])
    /\ UNCHANGED <<rl_pc, max_operations, time_window, awsVars, elkVars, baseVars>>

RateLimiterNext == CheckRateLimit

RateLimiterSpec == RateLimiterInit /\ [][RateLimiterNext]_vars

(***************************************************************************)
(* AWSCleaner (scripts/testing/aws_cleanup.py).  A resource carries the     *)
(* value of its Project tag ("none" without one).  A cleanup step is given  *)
(* what AWS holds and the fault that AWS answers with, and yields the API   *)
(* calls it makes in their order, the counters of stats it raises, and how  *)
(* it ends: "ok" (returns True), "client_error" (the outer except records   *)
(* the ClientError and returns False) or "crashed" (an exception that is    *)
(* not a ClientError leaves the step).                                      *)
(***************************************************************************)
\* an API call: the verb and the noun of the operation, and its target
Call(verb, noun, target) == [verb |-> verb, noun |-> noun, target |-> target]

\* all(tags.get(k) == v for k, v in test_tags.items()), with get_test_tags
\* (lines 71-77): true of every resource when there is no test id
TagsMatch(project, test_id) == test_id = NoTestId \/ project = test_id

\* the resources that a describe call with Filters=[tag:Project] returns
FilterByTag(items, test_id) ==
    SelectSeq(items, LAMBDA r : TagsMatch(r.project, test_id))

\* what a step has done so far
NothingYet == [calls |-> <<>>, incs |-> <<>>]

AddCall(acc, call) == [acc EXCEPT !.calls = Append(@, call)]

AddInc(acc, key) == [acc EXCEPT !.incs = Append(@, key)]

Ended(acc, status) == [calls |-> acc.calls, incs |-> acc.incs, status |-> status]

\* the faults of AWS: none; the listing call of the step raises ClientError
\* or an exception that is not a ClientError (EndpointConnectionError,
\* NoCredentialsError); the first query about a single resource raises
\* ClientError; the first delete or detach call raises ClientError; the
\* first waiter.wait raises WaiterError
Faults ==
    {"none", "list_client_error", "list_other_error", "item_client_error",
     "delete_client_error", "waiter_error"}

\* the loop of lines 87-112
RECURSIVE LoadBalancerLoop(_, _, _, _, _)
LoadBalancerLoop(lbs, dry_run, test_id, fault, acc) ==
    IF lbs = <<>> THEN Ended(acc, "ok")
    ELSE LET lb == Head(lbs)
             tagged == AddCall(acc, Call("describe", "tags", lb.id))
         IN IF fault = "item_client_error"
            THEN LoadBalancerLoop(Tail(lbs), dry_run, test_id, "none", tagged)
            ELSE IF ~TagsMatch(lb.project, test_id) \/ dry_run
            THEN LoadBalancerLoop(Tail(lbs), dry_run, test_id, fault, tagged)
            ELSE LET deleting == AddCall(tagged, Call("delete", "load_balancer", lb.id))
                     waited == AddCall(AddInc(deleting, "load_balancers"),
                                       Call("wait", "load_balancers_deleted", lb.id))
                 IN IF fault = "delete_client_error"
                    THEN LoadBalancerLoop(Tail(lbs), dry_run, test_id, "none", deleting)
                    ELSE IF fault = "waiter_error" THEN Ended(waited, "crashed")
                    ELSE LoadBalancerLoop(Tail(lbs), dry_run, test_id, fault, waited)

\* cleanup_load_balancers (lines 79-118)
cleanup_load_balancers(world, dry_run, test_id, fault) ==
    LET listed == AddCall(NothingYet, Call("describe", "load_balancers", "all"))
    IN IF fault = "list_client_error" THEN Ended(listed, "client_error")
       ELSE IF fault = "list_other_error" THEN Ended(listed, "crashed")
       ELSE LoadBalancerLoop(world.load_balancers, dry_run, test_id, fault, listed)

\* the loop of lines 131-158
RECURSIVE EniLoop(_, _, _, _)
EniLoop(enis, dry_run, fault, acc) ==
    IF enis = <<>> THEN Ended(acc, "ok")
    ELSE LET eni == Head(enis)
             detached == IF eni.attached
                         THEN AddCall(acc, Call("detach", "network_interface", eni.id))
                         ELSE acc
             detach_failed == eni.attached /\ fault = "delete_client_error"
             deleting == AddCall(detached, Call("delete", "network_interface", eni.id))
             delete_failed == ~eni.attached /\ fault = "delete_client_error"
         IN IF dry_run THEN EniLoop(Tail(enis), dry_run, fault, acc)
            ELSE IF delete_failed THEN EniLoop(Tail(enis), dry_run, "none", deleting)
            ELSE EniLoop(Tail(enis), dry_run,
                         IF detach_failed THEN "none" ELSE fault,
                         AddInc(deleting, "enis"))

\* cleanup_enis (lines 120-164)
cleanup_enis(world, dry_run, test_id, fault) ==
    LET listed == AddCall(NothingYet, Call("describe", "network_interfaces", "tagged"))
    IN IF fault = "list_client_error" THEN Ended(listed, "client_error")
       ELSE IF fault = "list_other_error" THEN Ended(listed, "crashed")
       ELSE EniLoop(FilterByTag(world.enis, test_id), dry_run, fault, listed)

\* the loop of lines 176-189: a ClientError of delete_nat_gateway is caught
\* by the except of line 192
RECURSIVE NatGatewayLoop(_, _, _, _)
NatGatewayLoop(nats, dry_run, fault, acc) ==
    IF nats = <<>> THEN Ended(acc, "ok")
    ELSE LET nat == Head(nats)
             deleting == AddCall(acc, Call("delete", "nat_gateway", nat.id))
             waited == AddCall(AddInc(deleting, "nat_gateways"),
                               Call("wait", "nat_gateway_deleted", nat.id))
         IN IF nat.state \notin {"available", "pending"} \/ dry_run
            THEN NatGatewayLoop(Tail(nats), dry_run, fault, acc)
            ELSE IF fault = "delete_client_error" THEN Ended(deleting, "client_error")
            ELSE IF fault = "waiter_error" THEN Ended(waited, "crashed")
            ELSE NatGatewayLoop(Tail(nats), dry_run, fault, waited)

\* cleanup_nat_gateways (lines 166-195)
cleanup_nat_gateways(world, dry_run, test_id, fault) ==
    LET listed == AddCall(NothingYet, Call("describe", "nat_gateways", "tagged"))
    IN IF fault = "list_client_error" THEN Ended(listed, "client_error")
       ELSE IF fault = "list_other_error" THEN Ended(listed, "crashed")
       ELSE NatGatewayLoop(FilterByTag(world.nat_gateways, test_id), dry_run, fault, listed)

\* one call of the body of the VPC loop: the call, the counter of stats
\* raised after it ("" for none), and whether a ClientError of the call is
\* caught around it
PlanStep(call, inc, caught) == [call |-> call, inc |-> inc, caught |-> caught]

\* lines 216-223: every internet gateway is detached and deleted
RECURSIVE InternetGatewayPlan(_)
InternetGatewayPlan(igws) ==
    IF igws = <<>> THEN <<>>
    ELSE <<PlanStep(Call("detach", "internet_gateway", Head(igws)), "", FALSE),
           PlanStep(Call("delete", "internet_gateway", Head(igws)),
                    "internet_gateways", FALSE)>>
           \o InternetGatewayPlan(Tail(igws))

\* lines 229-231
SubnetPlan(subnets) ==
    [i \in 1..Len(subnets) |->
        PlanStep(Call("delete", "subnet", subnets[i]), "subnets", FALSE)]

\* lines 237-240: the route tables that are not the main one
RouteTablePlan(rts) ==
    LET others == SelectSeq(rts, LAMBDA rt : ~rt.main)
    IN [i \in 1..Len(others) |->
           PlanStep(Call("delete", "route_table", others[i].id), "route_tables", FALSE)]

\* lines 246-259: the security groups other than default; a ClientError of
\* the delete is caught
SecurityGroupPlan(sgs) ==
    LET others == SelectSeq(sgs, LAMBDA sg : ~sg.default)
    IN [i \in 1..Len(others) |->
           PlanStep(Call("delete", "security_group", others[i].id),
                    "security_groups", TRUE)]

\* lines 212-264: the calls for one VPC
VpcPlan(net) ==
    <<PlanStep(Call("describe", "internet_gateways", net.id), "", FALSE)>>
        \o InternetGatewayPlan(net.igws)
        \o <<PlanStep(Call("describe", "subnets", net.id), "", FALSE)>>
        \o SubnetPlan(net.subnets)
        \o <<PlanStep(Call("describe", "route_tables", net.id), "", FALSE)>>
        \o RouteTablePlan(net.route_tables)
        \o <<PlanStep(Call("describe", "security_groups", net.id), "", FALSE)>>
        \o SecurityGroupPlan(net.security_groups)
        \o <<PlanStep(Call("delete", "vpc", net.id), "vpcs", FALSE)>>

\* the calls of a plan, one after the other, until one raises a ClientError
\* that is not caught around it.  A security group whose delete raises
\* DependencyViolation is deleted at the second attempt (lines 252-257).
RECURSIVE RunPlan(_, _, _)
RunPlan(plan, fault, acc) ==
    IF plan = <<>> THEN [acc |-> acc, status |-> "ok", fault |-> fault]
    ELSE LET step == Head(plan)
             called == AddCall(acc, step.call)
             counted == IF step.inc = "" THEN called ELSE AddInc(called, step.inc)
         IN IF fault = "item_client_error" /\ step.call.verb = "describe"
            THEN [acc |-> called, status |-> "client_error", fault |-> "none"]
            ELSE IF fault = "delete_client_error"
                    /\ step.call.verb \in {"delete", "detach"}
            THEN IF step.caught
                 THEN RunPlan(Tail(plan), "none",
                              AddInc(AddCall(called, step.call), step.inc))
                 ELSE [acc |-> called, status |-> "client_error", fault |-> "none"]
            ELSE RunPlan(Tail(plan), fault, counted)

\* the loop of lines 207-264
RECURSIVE VpcLoop(_, _, _, _)
VpcLoop(vpcs, dry_run, fault, acc) ==
    IF vpcs = <<>> THEN Ended(acc, "ok")
    ELSE IF dry_run THEN VpcLoop(Tail(vpcs), dry_run, fault, acc)
    ELSE LET r == RunPlan(VpcPlan(Head(vpcs)), fault, acc)
         IN IF r.status # "ok" THEN Ended(r.acc, r.status)
            ELSE VpcLoop(Tail(vpcs), dry_run, r.fault, r.acc)

\* cleanup_vpcs (lines 197-270)
cleanup_vpcs(world, dry_run, test_id, fault) ==
    LET listed == AddCall(NothingYet, Call("describe", "vpcs", "tagged"))
    IN IF fault = "list_client_error" THEN Ended(listed, "client_error")
       ELSE IF fault = "list_other_error" THEN Ended(listed, "crashed")
       ELSE VpcLoop(FilterByTag(world.vpcs, test_id), dry_run, fault, listed)

\* the loop of lines 282-308: a dry run counts the group it would delete
RECURSIVE DbSubnetGroupLoop(_, _, _, _, _)
DbSubnetGroupLoop(groups, dry_run, test_id, fault, acc) ==
    IF groups = <<>> THEN Ended(acc, "ok")
    ELSE LET group == Head(groups)
             tagged == AddCall(acc, Call("list", "tags_for_resource", group.id))
             deleting == AddCall(tagged, Call("delete", "db_subnet_group", group.id))
         IN IF fault = "item_client_error"
            THEN DbSubnetGroupLoop(Tail(groups), dry_run, test_id, "none", tagged)
            ELSE IF ~TagsMatch(group.project, test_id)
            THEN DbSubnetGroupLoop(Tail(groups), dry_run, test_id, fault, tagged)
            ELSE IF dry_run
            THEN DbSubnetGroupLoop(Tail(groups), dry_run, test_id, fault,
                                   AddInc(tagged, "db_subnet_groups"))
            ELSE IF fault = "delete_client_error"
            THEN DbSubnetGroupLoop(Tail(groups), dry_run, test_id, "none", deleting)
            ELSE DbSubnetGroupLoop(Tail(groups), dry_run, test_id, fault,
                                   AddInc(deleting, "db_subnet_groups"))

\* cleanup_db_subnet_groups (lines 272-314)
cleanup_db_subnet_groups(world, dry_run, test_id, fault) ==
    LET listed == AddCall(NothingYet, Call("describe", "db_subnet_groups", "all"))
    IN IF fault = "list_client_error" THEN Ended(listed, "client_error")
       ELSE IF fault = "list_other_error" THEN Ended(listed, "crashed")
       ELSE DbSubnetGroupLoop(world.db_subnet_groups, dry_run, test_id, fault, listed)

\* the region of the cleaner and another one
HomeRegion == "us-east-1"

OtherRegion == "eu-west-1"

\* the bucket of the account with this name, if there is one
BucketsNamed(world, name) == SelectSeq(world.buckets, LAMBDA b : b.name = name)

\* lines 323-326: the named bucket alone, or the buckets that list_buckets
\* returns
BucketList(world, bucket_name) ==
    IF bucket_name # NoBucketName THEN <<bucket_name>>
    ELSE [i \in 1..Len(world.buckets) |-> world.buckets[i].name]

\* lines 375-380, 388-393: one delete_object for each version and marker
VersionDeletes(bucket) ==
    [i \in 1..Len(bucket.versions) |->
        Call("delete", "object_version", bucket.versions[i])]

\* lines 399-410: the objects and then the bucket
ObjectPlan(bucket) ==
    <<PlanStep(Call("list", "objects_v2", bucket.name), "", FALSE)>>
        \o [i \in 1..Len(bucket.objects) |->
               PlanStep(Call("delete", "object", bucket.objects[i]), "", FALSE)]
        \o <<PlanStep(Call("delete", "bucket", bucket.name), "s3_buckets", FALSE)>>

\* lines 360-410: a ClientError while the versions are deleted is caught at
\* line 394 and the objects are deleted next
EmptyAndDelete(bucket, fault, acc) ==
    LET listed == AddCall(acc, Call("list", "object_versions", bucket.name))
        deletes == VersionDeletes(bucket)
    IN IF fault = "delete_client_error" /\ deletes # <<>>
       THEN RunPlan(ObjectPlan(bucket), "none", AddCall(listed, deletes[1]))
       ELSE RunPlan(ObjectPlan(bucket), fault,
                    [listed EXCEPT !.calls = @ \o deletes])

\* the loop of lines 329-412
RECURSIVE BucketLoop(_, _, _, _, _, _, _)
BucketLoop(names, world, dry_run, test_id, bucket_name, fault, acc) ==
    IF names = <<>> THEN Ended(acc, "ok")
    ELSE LET found == BucketsNamed(world, Head(names))
             located == AddCall(acc, Call("get", "bucket_location", Head(names)))
         IN IF fault = "item_client_error"
            THEN BucketLoop(Tail(names), world, dry_run, test_id, bucket_name,
                            "none", located)
            ELSE IF found = <<>> \/ found[1].region # HomeRegion
            THEN BucketLoop(Tail(names), world, dry_run, test_id, bucket_name,
                            fault, located)
            ELSE LET bucket == found[1]
                     checked == IF bucket_name # NoBucketName THEN located
                                ELSE AddCall(located,
                                             Call("get", "bucket_tagging", bucket.name))
                     should_delete ==
                         \/ bucket_name # NoBucketName
                         \/ bucket.project # "none" /\ TagsMatch(bucket.project, test_id)
                 IN IF ~should_delete \/ dry_run
                    THEN BucketLoop(Tail(names), world, dry_run, test_id,
                                    bucket_name, fault, checked)
                    ELSE LET r == EmptyAndDelete(bucket, fault, checked)
                         IN IF r.status # "ok" THEN Ended(r.acc, r.status)
                            ELSE BucketLoop(Tail(names), world, dry_run, test_id,
                                            bucket_name, r.fault, r.acc)

\* cleanup_s3_buckets (lines 316-418)
cleanup_s3_buckets(world, dry_run, test_id, bucket_name, fault) ==
    LET listed == IF bucket_name # NoBucketName THEN NothingYet
                  ELSE AddCall(NothingYet, Call("list", "buckets", "all"))
        listing == bucket_name = NoBucketName
    IN IF listing /\ fault = "list_client_error" THEN Ended(listed, "client_error")
       ELSE IF listing /\ fault = "list_other_error" THEN Ended(listed, "crashed")
       ELSE BucketLoop(BucketList(world, bucket_name), world, dry_run, test_id,
                       bucket_name, fault, listed)

\* the loop of lines 428-447 over the stacks whose name holds eks- or eksctl-
RECURSIVE StackLoop(_, _, _, _, _)
StackLoop(stacks, dry_run, test_id, fault, acc) ==
    IF stacks = <<>> THEN Ended(acc, "ok")
    ELSE LET stack == Head(stacks)
             described == AddCall(acc, Call("describe", "stacks", stack.id))
             deleting == AddCall(described, Call("delete", "stack", stack.id))
         IN IF ~stack.eks
            THEN StackLoop(Tail(stacks), dry_run, test_id, fault, acc)
            ELSE IF fault = "item_client_error"
            THEN StackLoop(Tail(stacks), dry_run, test_id, "none", described)
            ELSE IF ~TagsMatch(stack.project, test_id) \/ dry_run
            THEN StackLoop(Tail(stacks), dry_run, test_id, fault, described)
            ELSE IF fault = "delete_client_error"
            THEN StackLoop(Tail(stacks), dry_run, test_id, "none", deleting)
            ELSE StackLoop(Tail(stacks), dry_run, test_id, fault,
                           AddInc(deleting, "cloudformation_stacks"))

\* cleanup_cloudformation_stacks (lines 420-453)
cleanup_cloudformation_stacks(world, dry_run, test_id, fault) ==
    LET listed == AddCall(NothingYet, Call("list", "stacks", "complete"))
    IN IF fault = "list_client_error" THEN Ended(listed, "client_error")
       ELSE IF fault = "list_other_error" THEN Ended(listed, "crashed")
       ELSE StackLoop(world.stacks, dry_run, test_id, fault, listed)

\* cleanup_log_groups without the test of dry_run at line 472
RECURSIVE LogGroupLoop_Unguarded(_, _, _, _)
LogGroupLoop_Unguarded(groups, dry_run, fault, acc) ==
    IF groups = <<>> THEN Ended(acc, "ok")
    ELSE LET deleting == AddCall(acc, Call("delete", "log_group", Head(groups).id))
         IN IF fault = "delete_client_error" THEN Ended(deleting, "client_error")
            ELSE LogGroupLoop_Unguarded(Tail(groups), dry_run, fault,
                                        AddInc(deleting, "log_groups"))

\* the loop of lines 467-476: a ClientError of delete_log_group ends the step
RECURSIVE LogGroupLoop(_, _, _, _)
LogGroupLoop(groups, dry_run, fault, acc) ==
    IF groups = <<>> THEN Ended(acc, "ok")
    ELSE IF dry_run THEN LogGroupLoop(Tail(groups), dry_run, fault, acc)
    ELSE LET deleting == AddCall(acc, Call("delete", "log_group", Head(groups).id))
         IN IF fault = "delete_client_error" THEN Ended(deleting, "client_error")
            ELSE LogGroupLoop(Tail(groups), dry_run, fault,
                              AddInc(deleting, "log_groups"))

\* the log groups whose name starts with /aws/test-infra, or with
\* /aws/test-infra-<test id> (lines 461-466)
WithPrefix(groups, test_id) ==
    SelectSeq(groups, LAMBDA g : g.infra /\ (test_id = NoTestId \/ g.project = test_id))

\* cleanup_log_groups (lines 455-482)
cleanup_log_groups(world, dry_run, test_id, fault) ==
    LET listed == AddCall(NothingYet, Call("describe", "log_groups", "prefix"))
    IN IF fault = "list_client_error" THEN Ended(listed, "client_error")
       ELSE IF fault = "list_other_error" THEN Ended(listed, "crashed")
       ELSE LogGroupLoop(WithPrefix(world.log_groups, test_id), dry_run, fault, listed)

\* an account with resources of the test run t1 and of others
BusyAccount ==
    [load_balancers |-> <<[id |-> "lb-1", project |-> "t1"],
                          [id |-> "lb-2", project |-> "other"]>>,
     enis |-> <<[id |-> "eni-1", project |-> "t1", attached |-> TRUE],
                [id |-> "eni-2", project |-> "other", attached |-> FALSE]>>,
     nat_gateways |-> <<[id |-> "nat-1", project |-> "t1", state |-> "available"],
                        [id |-> "nat-2", project |-> "t1", state |-> "deleted"]>>,
     vpcs |-> <<[id |-> "vpc-1", project |-> "t1",
                 igws |-> <<"igw-1">>, subnets |-> <<"subnet-1">>,
                 route_tables |-> <<[id |-> "rtb-main", main |-> TRUE],
                                    [id |-> "rtb-1", main |-> FALSE]>>,
                 security_groups |-> <<[id |-> "sg-default", default |-> TRUE],
                                       [id |-> "sg-1", default |-> FALSE]>>]>>,
     db_subnet_groups |-> <<[id |-> "dbsg-1", project |-> "t1"]>>,
     buckets |-> <<[name |-> "state", region |-> HomeRegion, project |-> "t1",
                    versions |-> <<"v1">>, objects |-> <<"o1">>],
                   [name |-> "far", region |-> OtherRegion, project |-> "t1",
                    versions |-> <<>>, objects |-> <<>>],
                   [name |-> "plain", region |-> HomeRegion, project |-> "none",
                    versions |-> <<>>, objects |-> <<"o2">>]>>,
     stacks |-> <<[id |-> "eksctl-t1", eks |-> TRUE, project |-> "t1"],
                  [id |-> "app", eks |-> FALSE, project |-> "t1"]>>,
     log_groups |-> <<[id |-> "/aws/test-infra-t1", infra |-> TRUE, project |-> "t1"],
                      [id |-> "/aws/lambda/app", infra |-> FALSE, project |-> "none"]>>]

\* an account where little is left of the test run
SparseAccount ==
    [load_balancers |-> <<>>,
     enis |-> <<[id |-> "eni-3", project |-> "t1", attached |-> FALSE]>>,
     nat_gateways |-> <<>>,
     vpcs |-> <<[id |-> "vpc-2", project |-> "t1",
                 igws |-> <<>>, subnets |-> <<>>,
                 route_tables |-> <<[id |-> "rtb-main", main |-> TRUE]>>,
                 security_groups |-> <<[id |-> "sg-2", default |-> FALSE]>>]>>,
     db_subnet_groups |-> <<[id |-> "dbsg-2", project |-> "other"]>>,
     buckets |-> <<[name |-> "logs", region |-> HomeRegion, project |-> "t1",
                    versions |-> <<>>, objects |-> <<>>]>>,
     stacks |-> <<>>,
     log_groups |-> <<[id |-> "/aws/test-infra", infra |-> TRUE, project |-> "none"]>>]

Accounts == {BusyAccount, SparseAccount}

TestIds == {NoTestId, "t1"}

BucketNames == {NoBucketName, "state"}

\* the names of cleanup_steps (lines 497-506)
cleanup_steps ==
    <<"Load Balancers", "ENIs", "NAT Gateways", "VPCs", "DB Subnet Groups",
      "S3 Buckets", "CloudFormation Stacks", "CloudWatch Log Groups">>

\* the key of stats['errors'] entries of each step
ErrorKey ==
    <<"load_balancers", "enis", "nat_gateways", "vpcs", "db_subnet_groups",
      "s3_buckets", "cloudformation_stacks", "log_groups">>

\* AWSCleaner(region, dry_run, test_id, bucket_name) (lines 24-52) and the
\* entry of run_cleanup
AwsInit ==
    /\ MainIdle
    /\ SortIdle
    /\ WorldIdle
    /\ ValIdle
    /\ RlIdle
    /\ ElkIdle
    /\ dependencies = DEPENDENCIES
    /\ aws_pc = "run"
    /\ cleaner \in [dry_run : BOOLEAN, test_id : TestIds, bucket_name : BucketNames]
    /\ account \in Accounts
    /\ cleanup_step = 1
    /\ invoked = <<>>
    /\ aws_calls = <<>>
    /\ stats = [incs |-> <<>>, errors |-> <<>>]
    /\ cleanup_result = "none"
    /\ faults = 0

\* step_func() at line 510 for step number n, which did r: a ClientError
\* caught by the outer except of the step is recorded in stats['errors'];
\* any other exception leaves run_cleanup
StepCalled(n, r, fault) ==
    /\ aws_pc = "run"
    /\ cleanup_step = n
    /\ fault = "none" \/ faults < MaxFaults
    /\ faults' = IF fault = "none" THEN faults ELSE faults + 1
    /\ invoked' = Append(invoked, cleanup_steps[n])
    /\ aws_calls' = aws_calls \o r.calls
    /\ stats' = [incs |-> stats.incs \o r.incs,
                 errors |-> IF r.status = "client_error"
                            THEN Append(stats.errors, ErrorKey[n])
                            ELSE stats.errors]
    /\ aws_pc' = IF r.status = "crashed" THEN "crashed" ELSE "run"
    /\ cleanup_step' = IF r.status = "crashed" THEN n ELSE n + 1
    /\ UNCHANGED <<cleaner, account, cleanup_result, rlVars, elkVars, baseVars>>

CleanupLoadBalancers ==
    \E fault \in Faults :
        StepCalled(1, cleanup_load_balancers(account, cleaner.dry_run,
                                             cleaner.test_id, fault), fault)

CleanupEnis ==
    \E fault \in Faults :
        StepCalled(2, cleanup_enis(account, cleaner.dry_run, cleaner.test_id, fault),
                   fault)

CleanupNatGateways ==
    \E fault \in Faults :
        StepCalled(3, cleanup_nat_gateways(account, cleaner.dry_run,
                                           cleaner.test_id, fault), fault)

CleanupVpcs ==
    \E fault \in Faults :
        StepCalled(4, cleanup_vpcs(account, cleaner.dry_run, cleaner.test_id, fault),
                   fault)

CleanupDbSubnetGroups ==
    \E fault \in Faults :
        StepCalled(5, cleanup_db_subnet_groups(account, cleaner.dry_run,
                                               cleaner.test_id, fault), fault)

CleanupS3Buckets ==
    \E fault \in Faults :
        StepCalled(6, cleanup_s3_buckets(account, cleaner.dry_run, cleaner.test_id,
                                         cleaner.bucket_name, fault), fault)

CleanupCloudformationStacks ==
    \E fault \in Faults :
        StepCalled(7, cleanup_cloudformation_stacks(account, cleaner.dry_run,
                                                    cleaner.test_id, fault), fault)

CleanupLogGroups ==
    \E fault \in Faults :
        StepCalled(8, cleanup_log_groups(account, cleaner.dry_run, cleaner.test_id,
                                         fault), fault)

\* the summary and the return of run_cleanup (lines 512-536)
CleanupReturns ==
    /\ aws_pc = "run"
    /\ cleanup_step = Len(cleanup_steps) + 1
    /\ aws_pc' = "returned"
    /\ cleanup_result' = IF stats.errors # <<>> THEN "False" ELSE "True"
    /\ UNCHANGED <<cleaner, account, cleanup_step, invoked, aws_calls, stats,
                   faults, rlVars, elkVars, baseVars>>

AwsNext ==
    \/ CleanupLoadBalancers
    \/ CleanupEnis
    \/ CleanupNatGateways
    \/ CleanupVpcs
    \/ CleanupDbSubnetGroups
    \/ CleanupS3Buckets
    \/ CleanupCloudformationStacks
    \/ CleanupLogGroups
    \/ CleanupReturns

AwsSpec == AwsInit /\ [][AwsNext]_vars

(***************************************************************************)
(* ElkSpec: search_update_field of infra/opensearch/code/modify_elk.py     *)
(* (lines 111-188) on an index of documents.  A document is its            *)
(* @timestamp; its _id is its place in the index, which is kept in         *)
(* ascending order of @timestamp, the order of the query.  The page size   *)
(* elkhits (9001 in the source, line 6) is scaled down.                    *)
(***************************************************************************)
\* the hit of the document at place i: its _id and its sort value
Hit(index, i) == [id |-> i, sort |-> index[i]]

\* the first size hits of a sequence of hits
FirstHits(found, size) ==
    IF Len(found) > size THEN SubSeq(found, 1, size) ELSE found

\* es.search(index=indexname, body=query): the first size documents in
\* ascending order of @timestamp, of those whose @timestamp is greater than
\* search_after when the query has one (after = 0: it has none)
Search(index, after, size) ==
    LET places == {i \in 1..Len(index) : after = 0 \/ index[i] > after}
        first == IF places = {} THEN Len(index) + 1
                 ELSE CHOOSE i \in places : \A j \in places : i <= j
    IN FirstHits([k \in 1..(Len(index) + 1 - first) |-> Hit(index, first + k - 1)],
                 size)

\* the _id of the hits
IdsOf(found) == {found[i].id : i \in 1..Len(found)}

\* the indexes: up to MaxDocs documents in ascending order of @timestamp
Indexes ==
    {index \in SeqsUpTo(1..MaxTimestamp, MaxDocs) :
        \A i \in 1..(Len(index) - 1) : index[i] <= index[i + 1]}

\* the start of search_update_field (lines 113-125)
ElkInit ==
    /\ MainIdle
    /\ SortIdle
    /\ WorldIdle
    /\ ValIdle
    /\ RlIdle
    /\ AwsIdle
    /\ dependencies = DEPENDENCIES
    /\ elk_pc = "initial_search"
    /\ elk_index \in Indexes
    /\ hits = <<>>
    /\ scanned = {}
    /\ countdocument = 0
    /\ search_errors = 0

\* the initial search of size 1 (lines 126-127); none of its hits is looked
\* at
InitialSearch ==
    /\ elk_pc = "initial_search"
    /\ hits' = Search(elk_index, 0, 1)
    /\ elk_pc' = "pagination"
    /\ UNCHANGED <<elk_index, scanned, countdocument, search_errors, rlVars, awsVars,
                   baseVars>>

\* one pass of the while loop (lines 130-183): the search after the last
\* hit, then the for loop over its hits
Page ==
    /\ elk_pc = "pagination"
    /\ hits # <<>>
    /\ hits' = Search(elk_index, hits[Len(hits)].sort, elkhits)
    /\ scanned' = scanned \cup IdsOf(hits')
    /\ countdocument' = countdocument + Len(hits')
    /\ UNCHANGED <<elk_pc, elk_index, search_errors, rlVars, awsVars, baseVars>>

\* a pass whose search raises ElasticsearchException (lines 137-139):
\* response is still the one of the search before, and its hits are the
\* ones that the for loop goes over
PageAfterError ==
    /\ elk_pc = "pagination"
    /\ hits # <<>>
    /\ search_errors < MaxSearchErrors
    /\ search_errors' = search_errors + 1
    /\ scanned' = scanned \cup IdsOf(hits)
    /\ countdocument' = countdocument + Len(hits)
    /\ UNCHANGED <<elk_pc, elk_index, hits, rlVars, awsVars, baseVars>>

\* the while condition fails (line 130): search_update_field returns
PaginationEnds ==
    /\ elk_pc = "pagination"
    /\ hits = <<>>
    /\ elk_pc' = "done"
    /\ UNCHANGED <<elk_index, hits, scanned, countdocument, search_errors, rlVars,
                   awsVars, baseVars>>

ElkNext == InitialSearch \/ Page \/ PageAfterError \/ PaginationEnds

ElkSpec == ElkInit /\ [][ElkNext]_vars

(***************************************************************************)
(* Vocabulary of the properties of _sort_by_dependencies.  These are       *)
(* stated on the lists themselves, not through the operators above.        *)
(***************************************************************************)
\* the names that dependencies[c] lists and that occur in lst
DepsWithin(c, lst) ==
    {d \in SortNames :
        /\ c \in DOMAIN dependencies
        /\ \E k \in 1..Len(dependencies[c]) : dependencies[c][k] = d
        /\ \E i \in 1..Len(lst) : lst[i] = d}

\* every occurrence of a component comes after an occurrence of each of its
\* dependencies that is in the list
DependencyOrdered(lst) ==
    \A i \in 1..Len(lst) :
        \A d \in DepsWithin(lst[i], lst) : \E j \in 1..(i - 1) : lst[j] = d

\* b is reachable from a in at most n dependency edges between members of lst
RECURSIVE DependsOn(_, _, _, _)
DependsOn(a, b, n, lst) ==
    /\ n > 0
    /\ \/ b \in DepsWithin(a, lst)
       \/ \E c \in DepsWithin(a, lst) : DependsOn(c, b, n - 1, lst)

\* no member of lst depends on itself, directly or through other members
Acyclic(lst) ==
    \A i \in 1..Len(lst) : ~DependsOn(lst[i], lst[i], Len(lst), lst)

\* the component at index i of remaining can be placed now
PlaceableAt(i) ==
    \A d \in DepsWithin(remaining[i], sort_input) :
        \E j \in 1..Len(sorted_components) : sorted_components[j] = d

\* sub is lst with some elements left out, the others in their order
IsSubsequence(sub, lst) ==
    \E f \in [1..Len(sub) -> 1..Len(lst)] :
        /\ \A i \in 1..Len(sub) : sub[i] = lst[f[i]]
        /\ \A i, j \in 1..Len(sub) : i < j => f[i] < f[j]

\* C1: once _sort_by_dependencies has returned for a list whose dependency
\* relation is acyclic, every dependency of a component that is part of
\* the list sits at a strictly smaller index than that component.
C1_DependenciesFirst ==
    (sort_pc = "returned" /\ Acyclic(sort_input))
        => DependencyOrdered(sorted_components)

\* C1 witness: an acyclic list returned in an order other than the given
\* one, with a component that follows a dependency it was given before.
C1_Witness ==
    /\ sort_pc = "returned"
    /\ Acyclic(sort_input)
    /\ Len(sort_input) = 3
    /\ ~DependencyOrdered(sort_input)
    /\ sorted_components # sort_input

\* C4: a pass in which no remaining component is placeable does not raise:
\* it returns the placed components followed by all remaining ones, which
\* are still in the relative order they had in the input.
C4_CycleFallback ==
    [][(/\ sort_pc = "loop"
        /\ remaining # <<>>
        /\ \A i \in 1..Len(remaining) : ~PlaceableAt(i))
       => (/\ sort_pc' = "returned"
           /\ sorted_components' = sorted_components \o remaining
           /\ IsSubsequence(remaining, sort_input))]_vars

\* C4 witness: the fallback ran after a component had been placed and
\* appended two or more remaining components.
C4_Witness ==
    /\ sort_pc = "returned"
    /\ Len(remaining) >= 2
    /\ Len(sorted_components) = Len(sort_input)
    /\ Len(remaining) < Len(sort_input)

\* C5: the returned list is a permutation of the input, whatever the
\* dependency table: same length, same number of occurrences of each name.
C5_Permutation ==
    sort_pc = "returned" =>
        /\ Len(sorted_components) = Len(sort_input)
        /\ \A n \in SortNames :
              Cardinality({i \in 1..Len(sorted_components) : sorted_components[i] = n})
                = Cardinality({i \in 1..Len(sort_input) : sort_input[i] = n})

\* C5 witness: a returned sort of a list with a repeated name under a
\* cyclic table (the fallback ran).
C5_Witness ==
    /\ sort_pc = "returned"
    /\ remaining # <<>>
    /\ sorted_components # sort_input
    /\ \E i, j \in 1..Len(sort_input) : i # j /\ sort_input[i] = sort_input[j]

\* C6: an input already in dependency order is returned unchanged, and
\* sorting a returned list again returns the same list.
C6_Idempotent ==
    sort_pc = "returned" =>
        /\ DependencyOrdered(sort_input) => sorted_components = sort_input
        /\ SortByDependencies(sorted_components, dependencies) = sorted_components

\* C6 witness: a returned sort of a three-element input that was already
\* in dependency order and holds a component together with its dependency.
C6_Witness ==
    /\ sort_pc = "returned"
    /\ Len(sort_input) = 3
    /\ DependencyOrdered(sort_input)
    /\ \E i \in 1..3 : DepsWithin(sort_input[i], sort_input) # {}

\* C7: every pass that can place a component places the placeable component
\* with the smallest index in remaining and takes exactly that element out;
\* hence components without dependencies in the list keep their input order.
C7_FirstPlaceableWins ==
    [][(sort_pc = "loop" /\ \E i \in 1..Len(remaining) : PlaceableAt(i))
       => LET k == CHOOSE i \in 1..Len(remaining) :
                      PlaceableAt(i) /\ \A j \in 1..(i - 1) : ~PlaceableAt(j)
          IN /\ sorted_components' = Append(sorted_components, remaining[k])
             /\ remaining' = [i \in 1..(Len(remaining) - 1) |->
                                 IF i < k THEN remaining[i] ELSE remaining[i + 1]]
             /\ sort_pc' = "loop"]_vars

\* C7 witness: a pass has skipped a component that was not placeable and
\* placed a later one while another placeable one stood behind it.
C7_Witness ==
    /\ sort_pc = "loop"
    /\ Len(sort_input) = 3
    /\ Len(sorted_components) = 1
    /\ sorted_components[1] = sort_input[2]
    /\ remaining = <<sort_input[1], sort_input[3]>>
    /\ DepsWithin(sort_input[3], sort_input) = {}

(***************************************************************************)
(* Properties of validate_components and of the run of main (Spec).        *)
(***************************************************************************)
KnownNames == {terraform_backend, vpc, eks_auto, rds}

\* validate_components has returned normally in this run
ValidatedOk ==
    /\ pc \notin {"idle", "construct", "validate_components"}
    /\ error.stage \notin {"construct", "validate_components"}

\* the direct dependencies, per DEPENDENCIES, of the components of lst
DirectDeps(lst) ==
    {d \in KnownNames :
        \E i \in 1..Len(lst) :
            /\ lst[i] \in DOMAIN DEPENDENCIES
            /\ \E k \in 1..Len(DEPENDENCIES[lst[i]]) : DEPENDENCIES[lst[i]][k] = d}

\* those of them that lst does not hold
MissingDeps(lst) == {d \in DirectDeps(lst) : \A i \in 1..Len(lst) : lst[i] # d}

Occurrences(n, lst) == Cardinality({i \in 1..Len(lst) : lst[i] = n})

\* C2: after validate_components has succeeded, every direct dependency of
\* every requested component is in the list, the list holds the requested
\* components and the missing dependencies and nothing else, and a request
\* of eks-auto alone leaves vpc, eks-auto in that order.
C2_DependenciesAdded ==
    ValidatedOk =>
        /\ \A d \in DirectDeps(requested) :
              \E j \in 1..Len(components) : components[j] = d
        /\ \A j \in 1..Len(components) :
              \/ \E i \in 1..Len(requested) : requested[i] = components[j]
              \/ components[j] \in MissingDeps(requested)
        /\ Len(components) = Len(requested) + Cardinality(MissingDeps(requested))
        /\ requested = <<eks_auto>> => components = <<vpc, eks_auto>>

\* C2 witness: validate_components has succeeded on a request of eks-auto
\* alone.
C2_Witness == ValidatedOk /\ requested = <<eks_auto>>

\* C3: validate_components called on a list that holds a name outside
\* AVAILABLE_COMPONENTS, at any position, raises the error that names an
\* unknown component of the list and lists the valid names.
C3_UnknownComponentRaises ==
    [][(/\ pc = "validate_components"
        /\ \E i \in 1..Len(components) : components[i] \notin KnownNames)
       => (/\ pc' = "failed"
           /\ error'.stage = "validate_components"
           /\ error'.type = "ValueError"
           /\ error'.msg = "Unknown component"
           /\ error'.component \notin KnownNames
           /\ \E i \in 1..Len(components) : components[i] = error'.component
           /\ error'.available = <<terraform_backend, vpc, eks_auto, rds>>)]_vars

\* C3 witness: the call failed on a list whose unknown name came last,
\* after a component with a dependency to add.
C3_Witness ==
    /\ pc = "failed"
    /\ error.stage = "validate_components"
    /\ requested = <<vpc, eks_auto, unknown_component>>

\* C8 as stated: after validate_components every component of the list
\* appears exactly once, even if it was requested several times.
C8_EachComponentOnce_AsStated ==
    ValidatedOk =>
        \A i, j \in 1..Len(components) : components[i] = components[j] => i = j

\* C8 as amended: a component that was requested appears as many times as
\* it was requested (duplicates are kept), and a dependency that was added
\* appears exactly once.
C8_OncePerRequest ==
    ValidatedOk =>
        \A n \in KnownNames :
            Occurrences(n, components) =
                IF Occurrences(n, requested) > 0 THEN Occurrences(n, requested)
                ELSE IF n \in DirectDeps(requested) THEN 1
                ELSE 0

\* C8 witness: validate_components has succeeded on vpc requested three
\* times.
C8_Witness == ValidatedOk /\ requested = <<vpc, vpc, vpc>>

\* C9 as stated: after the expansion every requested component is still in
\* the list and the list holds at least one component that was not
\* requested.
C9_StrictSuperset_AsStated ==
    ValidatedOk =>
        /\ \A i \in 1..Len(requested) :
              \E j \in 1..Len(components) : components[j] = requested[i]
        /\ \E j \in 1..Len(components) :
              \A i \in 1..Len(requested) : requested[i] # components[j]

\* C9 as amended: every requested component is still in the list, as often
\* as it was requested, and the list holds a component that was not
\* requested exactly when a requested component has a dependency that was
\* not requested.
C9_Superset ==
    ValidatedOk =>
        /\ \A n \in KnownNames :
              Occurrences(n, components) >= Occurrences(n, requested)
        /\ (\E j \in 1..Len(components) :
               \A i \in 1..Len(requested) : requested[i] # components[j])
           <=> MissingDeps(requested) # {}

\* C9 witness: validate_components has succeeded on a request of two
\* components, one of them with a dependency that was not requested.
C9_Witness ==
    /\ ValidatedOk
    /\ Len(requested) = 2
    /\ MissingDeps(requested) # {}
    /\ Len(components) = 3

\* the stages of a run in their order
StageOrder ==
    <<"construct", "validate_components", "generate", "generate_component",
      "generate_ci_config", "generate_config_structure", "generate_readme",
      "generate_backend_scripts", "finish", "done">>

StageRank(p) == CHOOSE i \in 1..Len(StageOrder) : StageOrder[i] = p

AuxiliaryRank(what) ==
    CASE what = "ci_config" -> 1
      [] what = "config_structure" -> 2
      [] what = "readme" -> 3
      [] what = "backend_scripts" -> 4
      [] OTHER -> 0

\* the components whose directories log records, in the order of the log
RECURSIVE ComponentsIn(_)
ComponentsIn(log) ==
    IF log = <<>> THEN <<>>
    ELSE IF Head(log).what = "component_dir"
         THEN <<Head(log).component>> \o ComponentsIn(Tail(log))
         ELSE ComponentsIn(Tail(log))

\* log holds the components in the order of comps, every auxiliary artifact
\* after all of them, and the auxiliary artifacts in their order
WritesInOrder(log, comps) ==
    /\ Len(ComponentsIn(log)) <= Len(comps)
    /\ ComponentsIn(log) = SubSeq(comps, 1, Len(ComponentsIn(log)))
    /\ \A j \in 1..Len(log) :
          AuxiliaryRank(log[j].what) > 0 =>
              /\ ComponentsIn(SubSeq(log, 1, j)) = comps
              /\ \A i \in 1..(j - 1) :
                    AuxiliaryRank(log[i].what) < AuxiliaryRank(log[j].what)

\* C10: a run goes through its stages in one fixed order: validation of the
\* inputs, resolution of the components, one component after the other in
\* resolved order, CI config, config scaffold, README, then the end.  Every
\* step goes on to a later stage (or to the next component) or fails, and
\* no auxiliary artifact is written before the last component.
C10_LinearStages ==
    [][/\ pc # "failed"
       /\ \/ pc' = "failed"
          \/ /\ pc = "generate_component"
             /\ pc' = "generate_component"
             /\ comp_idx' = comp_idx + 1
             /\ comp_idx' <= Len(components)
          \/ /\ pc' # pc
             /\ StageRank(pc') = StageRank(pc) + 1
             /\ pc = "generate_component" => comp_idx' = Len(components) + 1
          \/ /\ pc = "generate_backend_scripts"
             /\ pc' = "done"
       /\ WritesInOrder(fs_log', components')]_vars

\* C10 witness: a run has ended after four components, the CI config, the
\* config scaffold and the README.
C10_Witness ==
    /\ pc = "done"
    /\ Len(components) = 4
    /\ Len(fs_log) >= 9
    /\ \E j \in 1..Len(fs_log) : fs_log[j].what = "ci_config"

(***************************************************************************)
(* Vocabulary of the properties of generate and the file system.           *)
(***************************************************************************)
\* what the current run has created or written
WrittenNow(tree) == {p \in DOMAIN tree : tree[p].run = 1}

\* p lies below dir
Under(p, dir) ==
    /\ Len(p) > Len(dir)
    /\ \A i \in 1..Len(dir) : p[i] = dir[i]

\* the CI configs, the config scaffold and the README
AuxiliaryPaths ==
    {<<seg_work, seg_generated_infra, seg_gitlab_ci>>,
     <<seg_work, seg_generated_infra, seg_github>>,
     <<seg_work, seg_generated_infra, seg_github, seg_workflows>>,
     <<seg_work, seg_generated_infra, seg_github, seg_workflows, seg_terraform_ci>>,
     <<seg_work, seg_generated_infra, seg_azure_pipelines>>,
     <<seg_work, seg_generated_infra, seg_infra, seg_config>>,
     <<seg_work, seg_generated_infra, seg_infra, seg_config, seg_readme>>,
     <<seg_work, seg_generated_infra, seg_infra, seg_config, seg_sample_tfvars>>,
     <<seg_work, seg_generated_infra, seg_readme>>}

\* the component whose directory below infra/ holds p
ComponentOfPath(p) == p[4]

\* C11: when _generate_component raises, the run ends there: nothing that
\* existed before the call is removed and nothing the run had written is
\* changed, no CI config, config scaffold or README has been written, only
\* components up to the failing one have anything written, and no further
\* step changes the file system.
C11_FailedComponentAborts ==
    [][/\ (pc = "generate_component" /\ pc' = "failed") =>
            /\ error'.stage = "generate_component"
            /\ \A p \in DOMAIN fs :
                  /\ p \in DOMAIN fs'
                  /\ fs[p].run = 1 => fs'[p] = fs[p]
            /\ WrittenNow(fs') \cap AuxiliaryPaths = {}
            /\ \A p \in WrittenNow(fs') :
                  Under(p, <<seg_work, seg_generated_infra, seg_infra>>) =>
                      \E i \in 1..comp_idx : ComponentOfPath(p) = components[i]
            /\ ComponentsIn(fs_log') = SubSeq(components, 1, comp_idx)
       /\ pc = "failed" => (pc' = "failed" /\ fs' = fs)]_vars

\* C11 witness: the second of three components has failed after the first
\* one had its files written; those files are there.
C11_Witness ==
    /\ pc = "failed"
    /\ error.stage = "generate_component"
    /\ comp_idx = 2
    /\ Len(components) = 3
    /\ components[3] # components[1]
    /\ \E p \in WrittenNow(fs) :
          /\ Under(p, <<seg_work, seg_generated_infra, seg_infra, components[1]>>)
          /\ fs[p].kind = "file"

\* C12: a component that has neither a template with a .j2 file nor an
\* infra/<component> directory makes _generate_component raise, and generate
\* ends there.
C12_NoSourceFails_AsStated ==
    [][(/\ pc = "generate_component"
        /\ comp_idx <= Len(components)
        /\ DictGet(template_modules, components[comp_idx]) = <<>>
        /\ ~SourceOf(components[comp_idx]).exists)
         => (pc' = "failed" /\ error'.stage = "generate_component")]_vars

\* C13: the constructor's validation and validate_components leave the file
\* system as it is, and a run that ends in one of their errors has created
\* and written nothing; so whatever a run creates or writes, it does after
\* every validation has passed.
C13_ValidationBeforeWrites ==
    [][/\ pc \in {"construct", "validate_components"} =>
            (fs' = fs /\ fs_log' = fs_log)
       /\ (pc' = "failed" /\ error'.stage \in {"construct", "validate_components"}) =>
            /\ fs' = fs
            /\ WrittenNow(fs') = {}
            /\ fs_log' = <<>>
            /\ \E w \in StartWorlds : fs' = w.fs
       /\ WrittenNow(fs') # {} =>
            /\ pc \notin {"construct", "validate_components"}
            /\ error'.stage \notin {"construct", "validate_components"}]_vars

\* C13 witness: a request with an unknown component has been refused by
\* validate_components, in an output directory that holds an earlier output.
C13_Witness ==
    /\ pc = "failed"
    /\ error.stage = "validate_components"
    /\ error.component # <<>>
    /\ fs = EarlierOutput
    /\ WrittenNow(fs) = {}

\* C14: every path that a step of generate creates, overwrites or removes is
\* the output directory or lies below it.
C14_WritesUnderOutput_AsStated ==
    [][\A p \in DOMAIN fs \cup DOMAIN fs' :
          (p \notin DOMAIN fs \/ p \notin DOMAIN fs' \/ fs'[p] # fs[p]) =>
              (p = <<seg_work, seg_generated_infra>>
                 \/ Under(p, <<seg_work, seg_generated_infra>>))]_vars

(***************************************************************************)
(* Vocabulary of the properties of the validators.                         *)
(***************************************************************************)
Letters ==
    {"a","b","c","d","e","f","g","h","i","j","k","l","m",
     "n","o","p","q","r","s","t","u","v","w","x","y","z"}

Digits == {"0","1","2","3","4","5","6","7","8","9"}

\* the function fn has returned or raised
Returned(fn) == val_pc = "returned" /\ val_fn = fn

Accepted == val_result.error = None

\* the form of a name that the validators look at
Normalized(name) == Lower(Strip(NFKC(name)))

\* ^[a-z][a-z0-9-]{2,30}$
MatchesLetterFirst3To31(n) ==
    /\ Len(n) >= 3
    /\ Len(n) <= 31
    /\ n[1] \in Letters
    /\ \A i \in 2..Len(n) : n[i] \in Letters \cup Digits \cup {"-"}

\* 1 to 63 of a-z, 0-9 and '-', the first and the last not '-'
MatchesDnsLabel(n) ==
    /\ Len(n) >= 1
    /\ Len(n) <= 63
    /\ \A i \in 1..Len(n) : n[i] \in Letters \cup Digits \cup {"-"}
    /\ n[1] # "-"
    /\ n[Len(n)] # "-"

Trimmed(s) ==
    LET blank(k) == s[k] \in {" ", "\t", "\n"}
        first == CHOOSE i \in 1..(Len(s) + 1) :
                    /\ \A k \in 1..(i - 1) : blank(k)
                    /\ i <= Len(s) => ~blank(i)
        last == CHOOSE j \in 0..Len(s) :
                    /\ \A k \in (j + 1)..Len(s) : blank(k)
                    /\ j >= 1 => ~blank(j)
    IN SubSeq(s, first, last)

\* twelve decimal digits, those outside ASCII included
TwelveDigits(s) ==
    /\ Len(s) = 12
    /\ \A i \in 1..Len(s) : s[i] \in Digits \cup {"U+0661", "U+0662"}

TwelveZeros == <<"0","0","0","0","0","0","0","0","0","0","0","0">>

OneToNineZeroOneTwo == <<"1","2","3","4","5","6","7","8","9","0","1","2">>

\* the constructor has been given no account id
NoAccountId ==
    /\ Returned("validate_all_inputs")
    /\ val_args.aws_account_id = <<>>

ReturnedWithBase == Returned("validate_path") /\ val_args.base_dir.given

\* where the path argument and the base directory resolve to
ResolvedPath == Resolve(val_args.path, val_args.links)

ResolvedBase == Resolve(val_args.base_dir.dir, val_args.links)

\* C17 as stated: validate_path returns the resolved path for every path
\* that resolves to a true descendant of base, and raises for every path
\* that resolves to base itself or outside base.
C17_TrueDescendantsOnly_AsStated ==
    ReturnedWithBase =>
        /\ Under(ResolvedPath, ResolvedBase) =>
              (Accepted /\ val_result.value = ResolvedPath)
        /\ ~Under(ResolvedPath, ResolvedBase) => ~Accepted

\* C17: validate_path(p, base) returns the resolved path for every p without
\* a NUL character that resolves, in at most 4096 characters, to base itself
\* or to a descendant of base, and raises ValueError for every p that
\* resolves to a location outside base, paths that leave base through '..'
\* segments or through a symbolic link included.
C17_BaseOrDescendant ==
    ReturnedWithBase =>
        LET inside == ResolvedPath = ResolvedBase \/ Under(ResolvedPath, ResolvedBase)
            wellFormed == /\ \A i \in 1..Len(val_args.path) :
                                \A k \in 1..Len(val_args.path[i]) :
                                    val_args.path[i][k] # "NUL"
                          /\ PathStrLen(ResolvedPath) <= 4096
        IN /\ (inside /\ wellFormed) => (Accepted /\ val_result.value = ResolvedPath)
           /\ ~inside => (~Accepted /\ val_result.error.type = "ValueError")
           /\ Accepted => (inside /\ wellFormed)

\* C17 witness: a path that comes back to base through '..' has been
\* returned as base.
C17_Witness ==
    /\ ReturnedWithBase
    /\ Accepted
    /\ val_result.value = ResolvedBase
    /\ Len(val_args.path) > Len(val_args.base_dir.dir)
    /\ \E i \in 1..Len(val_args.path) : val_args.path[i] = <<".", ".">>

\* a key that starts with '_' (the names __builtins__ and __globals__ do)
UnderscoreKey(key) == key # <<>> /\ key[1] = "_"

\* the dict holds an underscore key, itself or in a dict reachable from it
\* through dict values and list elements
RECURSIVE HoldsUnderscoreKey(_)
HoldsUnderscoreKey(dict) ==
    \/ \E k \in DOMAIN dict : UnderscoreKey(k)
    \/ \E k \in DOMAIN dict :
          \/ dict[k].type = "dict" /\ HoldsUnderscoreKey(dict[k].v)
          \/ /\ dict[k].type = "list"
             /\ \E i \in 1..Len(dict[k].v) :
                   /\ dict[k].v[i].type = "dict"
                   /\ HoldsUnderscoreKey(dict[k].v[i].v)

\* C18: the output of sanitize_template_context holds no key that starts
\* with '_', at the top level or in any mapping reachable from it, and keeps
\* every other key of the input.
C18_NoDangerousKeyAnywhere_AsStated ==
    Returned("sanitize_template_context") =>
        /\ ~HoldsUnderscoreKey(val_result.value)
        /\ \A k \in DOMAIN val_args :
              ~UnderscoreKey(k) => k \in DOMAIN val_result.value

\* C19: validate_components_list raises ValueError for the empty list, for a
\* list of more than 20 entries and for a list with an entry that
\* validate_component refuses; for every other list it returns, entry by
\* entry and in the order given, what validate_component returns.
C19_ListValidatedEntrywise ==
    Returned("validate_components_list") =>
        LET refused == \/ val_args = <<>>
                       \/ Len(val_args) > 20
                       \/ \E i \in 1..Len(val_args) :
                             validate_component(val_args[i]).error # None
        IN /\ refused => (~Accepted /\ val_result.error.type = "ValueError")
           /\ ~refused =>
                 /\ Accepted
                 /\ Len(val_result.value) = Len(val_args)
                 /\ \A i \in 1..Len(val_args) :
                       val_result.value[i] = validate_component(val_args[i]).value

\* C19 witness: a list of exactly 20 entries, written with a leading blank
\* and in upper case, has been returned as 20 normalized entries.
C19_Witness ==
    /\ Returned("validate_components_list")
    /\ Accepted
    /\ Len(val_args) = 20
    /\ Len(val_result.value) = 20
    /\ val_result.value # val_args

\* a file below the output directory
OutputFile(tree, p) ==
    /\ p \in DOMAIN tree
    /\ Under(p, <<seg_work, seg_generated_infra>>)
    /\ tree[p].kind = "file"

\* the subdirectory of a component directory that holds p:
\* <output>/infra/<component>/<subdirectory>
SubdirOfPath(p) == <<p[1], p[2], p[3], p[4], p[5]>>

\* p lies in a subdirectory of a component directory
InComponentSubdir(p) ==
    /\ Len(p) > 5
    /\ Under(p, <<seg_work, seg_generated_infra, seg_infra>>)

\* C20 as stated: after a successful generate every file of the output tree
\* is one that this run has written.
C20_OnlyThisRun_AsStated ==
    pc = "done" => \A p \in DOMAIN fs : OutputFile(fs, p) => fs[p].run = 1

\* C20: generate overwrites the files whose paths it writes again and
\* replaces whole each subdirectory it copies and the modules directory;
\* everything else that an earlier run left in the output directory stays as
\* it was.  So a step removes a path only below a subdirectory that it
\* copies anew or below modules, it changes what was there only by writing
\* it, and a subdirectory copied by this run holds nothing older.
C20_StaleOutputStays ==
    [][/\ \A p \in DOMAIN fs :
            p \notin DOMAIN fs' =>
               \/ /\ InComponentSubdir(p)
                  /\ SubdirOfPath(p) \in DOMAIN fs'
                  /\ fs'[SubdirOfPath(p)].run = 1
               \/ Under(p, <<seg_work, seg_generated_infra, seg_modules>>)
       /\ \A p \in DOMAIN fs \cap DOMAIN fs' :
            fs'[p] # fs[p] => fs'[p].run = 1
       /\ \A p \in DOMAIN fs' :
            (InComponentSubdir(p) /\ fs'[SubdirOfPath(p)].run = 1) => fs'[p].run = 1]_vars

\* C20 witness: a run for vpc and rds has ended in an output directory of an
\* earlier run: main.tf of vpc is of this run, outputs.tf of vpc is the one
\* the earlier run left, and of the subdirectory values of rds, copied anew,
\* the earlier prod.yaml is gone.
C20_Witness ==
    /\ pc = "done"
    /\ {<<seg_work, seg_generated_infra, seg_infra, vpc, main_tf>>,
        <<seg_work, seg_generated_infra, seg_infra, rds, seg_values, seg_dev_yaml>>}
          \subseteq DOMAIN fs
    /\ fs[<<seg_work, seg_generated_infra, seg_infra, vpc, main_tf>>].run = 1
    /\ <<seg_work, seg_generated_infra, seg_infra, vpc, outputs_tf>> \in DOMAIN fs
    /\ fs[<<seg_work, seg_generated_infra, seg_infra, vpc, outputs_tf>>].run = 0
    /\ fs[<<seg_work, seg_generated_infra, seg_infra, rds, seg_values, seg_dev_yaml>>].run = 1
    /\ <<seg_work, seg_generated_infra, seg_infra, rds, seg_values, seg_prod_yaml>>
          \notin DOMAIN fs
    /\ fs[<<seg_work, seg_generated_infra, seg_readme>>].run = 1

(***************************************************************************)
(* Vocabulary of the properties of RateLimiter.                            *)
(***************************************************************************)
\* the calls that returned True
GrantedCalls == {i \in 1..Len(rl_calls) : rl_calls[i].result}

\* the calls that returned True in the time span of length time_window
\* (exclusive) that begins with call i
GrantedFrom(i) ==
    {j \in GrantedCalls :
        /\ rl_calls[j].time >= rl_calls[i].time
        /\ rl_calls[j].time - rl_calls[i].time < time_window}

\* C21: the calls of check_rate_limit that returned True within any time
\* span shorter than time_window number at most max_operations, and the
\* list operations never holds more than max_operations entries.
C21_AtMostNPerWindow ==
    rl_pc = "ready" =>
        /\ Len(operations) <= max_operations
        /\ \A i \in GrantedCalls : Cardinality(GrantedFrom(i)) <= max_operations

\* C21 witness: two operations are allowed, two calls were granted, a third
\* call inside the window was refused and a later call was granted again.
C21_Witness ==
    /\ rl_pc = "ready"
    /\ max_operations = 2
    /\ Len(operations) = 2
    /\ \E i \in 1..Len(rl_calls) :
          /\ ~rl_calls[i].result
          /\ Cardinality({j \in GrantedCalls : j < i}) = 2
          /\ \E j \in GrantedCalls : j > i

\* the time of the oldest recorded operation
OldestOperation ==
    CHOOSE t \in {operations[k] : k \in 1..Len(operations)} :
        \A k \in 1..Len(operations) : t <= operations[k]

\* the step is a call of check_rate_limit; what it returned
CallMade == Len(rl_calls') = Len(rl_calls) + 1

CallReturned == rl_calls'[Len(rl_calls')].result

\* C22: a call made when the limiter holds max_operations operations, at
\* least time_window after the oldest of them, returns True; and a call
\* that returns False records nothing: the operations it leaves are the
\* earlier ones that are younger than time_window, in their order.
C22_GrantedAfterWindow ==
    [][CallMade =>
         /\ (/\ max_operations >= 1
             /\ Len(operations) = max_operations
             /\ clock' - OldestOperation >= time_window) => CallReturned
         /\ ~CallReturned =>
              operations' = SelectSeq(operations,
                                      LAMBDA t : clock' - t < time_window)]_vars

\* C22 witness: with one operation allowed, a call was granted, the next
\* one, inside the window, was refused, and the one after it, a whole window
\* after the first but less than a window after the refused one, was granted.
C22_Witness ==
    /\ rl_pc = "ready"
    /\ max_operations = 1
    /\ \E i \in 1..(Len(rl_calls) - 2) :
          /\ rl_calls[i].result
          /\ ~rl_calls[i + 1].result
          /\ rl_calls[i + 2].result
          /\ rl_calls[i + 2].time - rl_calls[i].time = time_window
          /\ rl_calls[i + 2].time - rl_calls[i + 1].time < time_window


(***************************************************************************)
(* Vocabulary of the properties of AWSCleaner.                              *)
(***************************************************************************)
\* the verbs of the calls made so far
VerbsCalled == {aws_calls[i].verb : i \in 1..Len(aws_calls)}

\* the calls that change nothing: describe_*, list_*, and the queries
\* get_bucket_location and get_bucket_tagging of cleanup_s3_buckets
ReadingVerbs == {"describe", "list", "get"}

\* some resource of the account carries the project tag of the test run
HoldsTaggedResources ==
    /\ account.load_balancers # <<>>
    /\ account.vpcs # <<>>
    /\ account.buckets # <<>>
    /\ account.log_groups # <<>>

\* C23: with dry_run set, no step of run_cleanup makes a delete or detach
\* call, whatever the account holds and whatever the tags are: every call
\* made is a describe or list call or one of the two bucket queries
\* get_bucket_location and get_bucket_tagging.
C23_DryRunOnlyReads ==
    cleaner.dry_run => VerbsCalled \subseteq ReadingVerbs

\* a dry run over an account with resources of the test run has returned,
\* after describe, list and get calls
C23_Witness ==
    /\ aws_pc = "returned"
    /\ cleaner.dry_run
    /\ HoldsTaggedResources
    /\ VerbsCalled = ReadingVerbs

\* C23 as it is stated: in a dry run only describe and list calls are made
C23_OnlyDescribeAndList_AsStated ==
    cleaner.dry_run => VerbsCalled \subseteq {"describe", "list"}


(***************************************************************************)
(* Vocabulary of the properties of validate_components on its own.         *)
(***************************************************************************)
\* the step is a call of validate_components that raises, that returns
ValidateComponentsRaises == pc = "validate_components" /\ pc' = "failed"

ValidateComponentsReturns == pc = "validate_components" /\ pc' = "generate"

\* the index of the first name of lst that is not in AVAILABLE_COMPONENTS
FirstUnknown(lst) ==
    CHOOSE k \in 1..Len(lst) :
        /\ ~In(lst[k], AVAILABLE_COMPONENTS)
        /\ \A j \in 1..(k - 1) : In(lst[j], AVAILABLE_COMPONENTS)

\* the dependencies of a component in the table in force
DepsOf(name) == DictGet(dependencies, name)

\* C24: when validate_components raises for an unknown component, the
\* requested names still stand at the front of the list in their order, and
\* behind them stand, once each, the missing dependencies of the components
\* that come before the first unknown name: each component is expanded right
\* after its own lookup, before the next component is looked up.
C24_ExpandedUpToUnknown ==
    [][ValidateComponentsRaises =>
          LET n == Len(components)
              k == FirstUnknown(components)
              m == Len(components')
          IN /\ m >= n
             /\ SubSeq(components', 1, n) = components
             /\ \A j \in (n + 1)..m :
                   /\ ~In(components'[j], components)
                   /\ \E i \in 1..(k - 1) : In(components'[j], DepsOf(components[i]))
                   /\ \A l \in (n + 1)..m : components'[l] = components'[j] => l = j
             /\ \A i \in 1..(k - 1) :
                   \A d \in 1..Len(DepsOf(components[i])) :
                       In(DepsOf(components[i])[d], components')]_vars

\* validate_components has raised for an unknown name that stands last in
\* the request, after it appended a dependency
C24_Witness ==
    /\ pc = "failed"
    /\ error.stage = "validate_components"
    /\ Len(requested) >= 2
    /\ FirstUnknown(requested) = Len(requested)
    /\ Len(components) > Len(requested)

\* C24 as it is stated: a call that raises leaves the list as it was
C24_ListUnchanged_AsStated ==
    [][ValidateComponentsRaises => components' = components]_vars

\* C25: the loop of validate_components runs over the list itself, so it
\* also visits what it appends: after a call that returns, the list holds
\* every dependency of every one of its components (with A requires B and
\* B requires C, one call on [A] adds B and C).
C25_AppendedAreVisited ==
    [][ValidateComponentsReturns =>
          \A i \in 1..Len(components') :
              \A d \in 1..Len(DepsOf(components'[i])) :
                  In(DepsOf(components'[i])[d], components')]_vars

\* one call on [A], where A requires B alone and B requires C alone, has
\* returned with A, B and C
C25_Witness ==
    /\ pc = "generate"
    /\ Len(requested) = 1
    /\ Len(components) = 3
    /\ LET a == requested[1]
       IN /\ Len(DepsOf(a)) = 1
          /\ DepsOf(a)[1] # a
          /\ Len(DepsOf(DepsOf(a)[1])) = 1
          /\ DepsOf(DepsOf(a)[1])[1] \notin {a, DepsOf(a)[1]}

\* C25 as it is stated: what a call adds are dependencies of the requested
\* components only
C25_OneLevelOnly_AsStated ==
    [][ValidateComponentsReturns =>
          \A j \in 1..Len(components') :
              \/ In(components'[j], components)
              \/ \E i \in 1..Len(components) :
                    In(components'[j], DepsOf(components[i]))]_vars


\* a name stands twice in the list
HasDuplicates(lst) == \E i, j \in 1..Len(lst) : i # j /\ lst[i] = lst[j]

\* two components of the list depend on each other
CyclicIn(lst) ==
    \E i, j \in 1..Len(lst) :
        /\ lst[i] # lst[j]
        /\ In(lst[j], DepsOf(lst[i]))
        /\ In(lst[i], DepsOf(lst[j]))

\* a component of the list has a dependency that is not in the list
NamesAbsent(lst) ==
    \E i \in 1..Len(lst) :
        \E d \in 1..Len(DepsOf(lst[i])) : ~In(DepsOf(lst[i])[d], lst)

\* C26: _sort_by_dependencies terminates for every list and every table,
\* with duplicates, cycles and absent dependencies: each pass of the loop
\* either places exactly one component, which shortens remaining by one, or
\* ends the loop, and the function returns in the end.
C26_SortTerminates ==
    /\ [][sort_pc = "loop" =>
             \/ /\ sort_pc' = "loop"
                /\ Len(remaining') = Len(remaining) - 1
                /\ Len(sorted_components') = Len(sorted_components) + 1
             \/ sort_pc' = "returned"]_vars
    /\ <>(sort_pc = "returned")

\* the sort of a list with a duplicate, a cycle and an absent dependency has
\* returned
C26_Witness ==
    /\ sort_pc = "returned"
    /\ HasDuplicates(sort_input)
    /\ CyclicIn(sort_input)
    /\ NamesAbsent(sort_input)
    /\ Len(sorted_components) = Len(sort_input)


\* the context of a generator's templates has been built
ContextBuilt == val_fn = "template_context" /\ val_pc = "returned"

\* C27: in the context of every component template, project_name and
\* environments are the validated values that the generator holds, whatever
\* keys its config has.
C27_ValidatedNamesBound_AsStated ==
    ContextBuilt =>
        /\ val_result.value[key_project_name] = StrValue(val_args.project_name)
        /\ val_result.value[key_environments] = StrList(val_args.environments)


\* main has merged flags and config file, and goes on to generate
ConfigMerged ==
    val_fn = "main_config" /\ val_pc = "returned" /\ val_result.error = None

\* the config file sets key and the flag of the key is not on the command
\* line
FileSetsAlone(key) ==
    key \in DOMAIN val_args.file /\ val_args.flags[key] = NotGiven

\* C28: when the config file sets region, backend_type or ci_provider and
\* the flag of that key is not given, generation uses the value of the
\* config file.
C28_FileValueUsed_AsStated ==
    ConfigMerged =>
        \A key \in {"region", "backend_type", "ci_provider"} :
            FileSetsAlone(key) => val_result.value[key] = val_args.file[key]


\* run_cleanup is over: it has returned, or an exception has left it
CleanupOver == aws_pc \in {"returned", "crashed"}

\* C29: run_cleanup calls the eight cleanup steps once each in the order of
\* cleanup_steps, goes on to the next step when a step fails, and returns
\* False exactly when a step has recorded an error.
C29_EightStepsThenResult_AsStated ==
    CleanupOver =>
        /\ aws_pc = "returned"
        /\ invoked = cleanup_steps
        /\ cleanup_result = IF stats.errors # <<>> THEN "False" ELSE "True"


(***************************************************************************)
(* Vocabulary of the properties of search_update_field.                    *)
(***************************************************************************)
\* the _id of the documents of the index
Documents == 1..Len(elk_index)

\* C30: when the pagination loop of search_update_field has ended, the
\* patterns have been applied to every document of the index, the one with
\* the earliest @timestamp included.
C30_EveryDocumentScanned_AsStated ==
    elk_pc = "done" => Documents \subseteq scanned

=============================================================================
